---- MODULE Spec2Model ----
(***************************************************************************)
(* Policy monitor: the change detector (src/src/analysis/changeDetector.js, *)
(* first class of the file), the content hash of the crawler               *)
(* (src/src/crawlers/googlePolicyDiscovery.js) and the monitoring loop     *)
(* (src/unnamed/part_000, PolicyMonitor.monitorPolicies) and the first-run *)
(* initializer (src/scripts/first-run.js).                                 *)
(*                                                                         *)
(* Text is modelled at the level the detector works at: a content string   *)
(* is a sequence of whitespace-separated tokens, a token is a word with an *)
(* optional sentence terminator "." attached, and a word is its sequence   *)
(* of characters (Chars).  Substring tests, lengths and the hash are       *)
(* computed on the characters.                                             *)
(***************************************************************************)
EXTENDS Integers, Sequences, FiniteSets, TLC

VARIABLES
  \* the classifier applied to one pair of snapshots
  previous,        \* the snapshot loadPreviousSnapshot returned, or NoSnapshot
  current,         \* the data extracted from the page
  assessment,      \* what detectChanges returned, Pending before the call
  \* the monitor
  envUseMongoDb,   \* process.env.USE_MONGODB === 'true'
  useMongoDb,      \* ChangeDetector.useMongoDb
  mongoConnected,  \* MongoStorage.isConnected
  fileStore,       \* the snapshot files, by url
  mongoStore,      \* the policy_snapshots collection, by url
  pc,              \* "idle", "running" inside monitorPolicies, or the step
                   \* of the first-run initializer
  run,             \* the number of runs started
  idx,             \* the position of the for loop in policyUrls
  results,         \* PolicyMonitor.results
  iter,            \* what the last iteration of the loop did
  \* history of the stores, kept to state properties of the loads
  lastSaved,       \* by url, the snapshot of the last saveSnapshot that returned
  baseline,        \* lastSaved of the url of the last iteration when it began
  alerted,         \* by url, the page the last alert was sent for and the
                   \* number of alerts sent for it, while the page has been
                   \* extracted unchanged since
  \* the first-run initializer (src/scripts/first-run.js)
  validUrls,       \* FirstRunInitializer.validUrls
  deadUrls,        \* FirstRunInitializer.deadUrls
  config,          \* the urls of config/policy-urls.json
  unkeyed,         \* the document of policy_snapshots without a url, if any
  \* the e-mail service (src/notifications/emailService.js)
  emailEnv,        \* which of SMTP_USER/SMTP_PASS and ALERT_EMAIL are set
  transporter,     \* EmailService.transporter: "null" or "created"
  verification,    \* transporter.verify(): "none", "pending", "verified", "failed"
  alertCount,      \* the number of calls of sendPolicyChangeAlert
  mailLog          \* the calls of transporter.sendMail

classifierVars == <<previous, current, assessment>>
monitorVars == <<envUseMongoDb, useMongoDb, mongoConnected, fileStore, mongoStore,
                 pc, run, idx, results, iter, lastSaved, baseline, alerted>>
firstRunVars == <<validUrls, deadUrls, config, unkeyed>>
emailVars == <<emailEnv, transporter, verification, alertCount, mailLog>>
vars == <<previous, current, assessment,
          envUseMongoDb, useMongoDb, mongoConnected, fileStore, mongoStore,
          pc, run, idx, results, iter, lastSaved, baseline, alerted,
          validUrls, deadUrls, config, unkeyed,
          emailEnv, transporter, verification, alertCount, mailLog>>

(***************************************************************************)
(* Bounds of the model.                                                    *)
(***************************************************************************)
\* largest number of repetitions of the body sentence in an assessed document
MaxRep == 20
\* number of monitoring runs (each run is a fresh PolicyMonitor process)
MaxRuns == 2
\* number of alerts the monitor sends while one e-mail service lives
MaxAlerts == 4

(***************************************************************************)
(* Characters and words.                                                   *)
(***************************************************************************)
\* the words documents are built from, each with its characters
Chars ==
  [ ads |-> <<"a","d","s">>,
    must |-> <<"m","u","s","t">>,
    not |-> <<"n","o","t">>,
    promote |-> <<"p","r","o","m","o","t","e">>,
    gambling |-> <<"g","a","m","b","l","i","n","g">>,
    services |-> <<"s","e","r","v","i","c","e","s">>,
    it |-> <<"i","t">>,
    is |-> <<"i","s">>,
    advertiser |-> <<"a","d","v","e","r","t","i","s","e","r">>,
    content |-> <<"c","o","n","t","e","n","t">>,
    policy |-> <<"p","o","l","i","c","y">>,
    applies |-> <<"a","p","p","l","i","e","s">>,
    thanks |-> <<"t","h","a","n","k","s">>,
    for |-> <<"f","o","r">>,
    visiting |-> <<"v","i","s","i","t","i","n","g">>,
    this |-> <<"t","h","i","s">>,
    website |-> <<"w","e","b","s","i","t","e">>,
    online |-> <<"o","n","l","i","n","e">>,
    banned |-> <<"b","a","n","n","e","d">>,
    everywhere |-> <<"e","v","e","r","y","w","h","e","r","e">>,
    fees |-> <<"f","e","e","s">>,
    fee |-> <<"f","e","e">>,
    apply |-> <<"a","p","p","l","y">>,
    visitors |-> <<"v","i","s","i","t","o","r","s">>,
    enjoy |-> <<"e","n","j","o","y">>,
    skip |-> <<"s","k","i","p">>,
    to |-> <<"t","o">>,
    main |-> <<"m","a","i","n">>,
    page |-> <<"p","a","g","e">>,
    found |-> <<"f","o","u","n","d">>,
    home |-> <<"h","o","m","e">>,
    help |-> <<"h","e","l","p">>,
    policies |-> <<"p","o","l","i","c","i","e","s">>,
    gt |-> <<">">> ]

Vocabulary == DOMAIN Chars

\* String.prototype.charCodeAt for the characters that occur
charCodeAt(c) ==
  IF c = " " THEN 32
  ELSE IF c = "." THEN 46
  ELSE IF c = ">" THEN 62
  ELSE LET alphabet == <<"a","b","c","d","e","f","g","h","i","j","k","l","m",
                         "n","o","p","q","r","s","t","u","v","w","x","y","z">>
       IN 96 + (CHOOSE i \in 1..26 : alphabet[i] = c)

\* String.prototype.includes on character sequences
Includes(hay, needle) ==
  \E i \in 0..(Len(hay) - Len(needle)) :
    \A j \in 1..Len(needle) : hay[i + j] = needle[j]

\* calculatePolicySpecificDifference: the policy keywords
policyKeywords ==
  { <<"r","e","q","u","i","r","e","d">>, <<"p","r","o","h","i","b","i","t","e","d">>,
    <<"a","l","l","o","w","e","d">>, <<"m","u","s","t">>,
    <<"c","a","n","n","o","t">>, <<"s","h","a","l","l">>,
    <<"w","i","l","l">>, <<"p","o","l","i","c","y">>,
    <<"r","u","l","e">>, <<"r","e","g","u","l","a","t","i","o","n">>,
    <<"c","o","m","p","l","i","a","n","c","e">>, <<"v","i","o","l","a","t","i","o","n">>,
    <<"r","e","s","t","r","i","c","t","i","o","n">>, <<"r","e","q","u","i","r","e","m","e","n","t">>,
    <<"g","u","i","d","e","l","i","n","e">>, <<"s","t","a","n","d","a","r","d">>,
    <<"c","r","i","t","e","r","i","a">>, <<"c","o","n","d","i","t","i","o","n">>,
    <<"e","f","f","e","c","t","i","v","e">>, <<"s","t","a","r","t","i","n","g">>,
    <<"e","n","d","i","n","g">>, <<"d","e","a","d","l","i","n","e">>,
    <<"d","a","t","e">>, <<"c","o","u","n","t","r","y">>,
    <<"r","e","g","i","o","n">>, <<"l","o","c","a","t","i","o","n">>,
    <<"t","e","r","r","i","t","o","r","y">>, <<"a","d","v","e","r","t","i","s","e","r">>,
    <<"m","e","r","c","h","a","n","t">>, <<"s","e","l","l","e","r">>,
    <<"b","u","y","e","r">>, <<"c","u","s","t","o","m","e","r">>,
    <<"p","r","o","d","u","c","t">>, <<"s","e","r","v","i","c","e">>,
    <<"c","o","n","t","e","n","t">>, <<"a","d">>,
    <<"l","i","s","t","i","n","g">>, <<"a","p","p","r","o","v","e">>,
    <<"d","i","s","a","p","p","r","o","v","e">>, <<"r","e","j","e","c","t">>,
    <<"a","c","c","e","p","t">>, <<"r","e","v","i","e","w">>,
    <<"f","e","e">>, <<"c","o","s","t">>,
    <<"p","r","i","c","e">>, <<"p","a","y","m","e","n","t">>,
    <<"c","h","a","r","g","e">>, <<"a","g","e">>,
    <<"a","d","u","l","t">>, <<"m","i","n","o","r">>,
    <<"c","h","i","l","d">>, <<"r","e","s","t","r","i","c","t","i","o","n">> }

\* containsCriticalPolicyChanges: the critical terms
criticalTerms ==
  { <<"p","r","o","h","i","b","i","t","e","d">>, <<"b","a","n","n","e","d">>,
    <<"r","e","s","t","r","i","c","t","e","d">>, <<"v","i","o","l","a","t","i","o","n">>,
    <<"p","e","n","a","l","t","y">>, <<"r","e","q","u","i","r","e","d">>,
    <<"m","a","n","d","a","t","o","r","y">>, <<"m","u","s","t"," ","c","o","m","p","l","y">>,
    <<"s","h","a","l","l"," ","c","o","m","p","l","y">>, <<"e","f","f","e","c","t","i","v","e"," ","i","m","m","e","d","i","a","t","e","l","y">>,
    <<"d","e","a","d","l","i","n","e">>, <<"e","x","p","i","r","e","s">>,
    <<"t","e","r","m","i","n","a","t","e","d">>, <<"s","t","a","r","t","i","n","g">>,
    <<"b","e","g","i","n","n","i","n","g">>, <<"e","f","f","e","c","t","i","v","e">>,
    <<"e","n","d","i","n","g">>, <<"u","n","t","i","l">>,
    <<"j","a","n","u","a","r","y">>, <<"f","e","b","r","u","a","r","y">>,
    <<"m","a","r","c","h">>, <<"a","p","r","i","l">>,
    <<"m","a","y">>, <<"j","u","n","e">>,
    <<"j","u","l","y">>, <<"a","u","g","u","s","t">>,
    <<"s","e","p","t","e","m","b","e","r">>, <<"o","c","t","o","b","e","r">>,
    <<"n","o","v","e","m","b","e","r">>, <<"d","e","c","e","m","b","e","r">>,
    <<"2","0","2","4">>, <<"2","0","2","5">>,
    <<"2","0","2","6">>, <<"2","0","2","7">>,
    <<"n","e","w"," ","r","e","q","u","i","r","e","m","e","n","t">>, <<"u","p","d","a","t","e","d"," ","r","e","q","u","i","r","e","m","e","n","t">>,
    <<"c","h","a","n","g","e","d"," ","r","e","q","u","i","r","e","m","e","n","t">>, <<"n","o"," ","l","o","n","g","e","r">>,
    <<"w","i","l","l"," ","n","o","t">>, <<"c","a","n","n","o","t">>,
    <<"m","u","s","t"," ","n","o","t">>, <<"a","p","p","r","o","v","a","l"," ","r","e","q","u","i","r","e","d">>,
    <<"c","e","r","t","i","f","i","c","a","t","i","o","n"," ","r","e","q","u","i","r","e","d">>, <<"l","i","c","e","n","s","e"," ","r","e","q","u","i","r","e","d">>,
    <<"a","l","l"," ","c","o","u","n","t","r","i","e","s">>, <<"s","p","e","c","i","f","i","c"," ","c","o","u","n","t","r","i","e","s">>,
    <<"r","e","g","i","o","n">>, <<"t","e","r","r","i","t","o","r","y">>,
    <<"u","n","i","t","e","d"," ","s","t","a","t","e","s">>, <<"e","u","r","o","p","e","a","n"," ","u","n","i","o","n">>,
    <<"a","u","s","t","r","a","l","i","a">>, <<"c","a","n","a","d","a">>,
    <<"f","e","e">>, <<"c","o","s","t">>,
    <<"c","h","a","r","g","e">>, <<"p","a","y","m","e","n","t">>,
    <<"p","r","i","c","e">>, <<"a","g","e"," ","r","e","s","t","r","i","c","t","i","o","n">>,
    <<"a","d","u","l","t"," ","c","o","n","t","e","n","t">>, <<"m","i","n","o","r">>,
    <<"c","h","i","l","d">>, <<"g","a","m","b","l","i","n","g">>,
    <<"h","e","a","l","t","h","c","a","r","e">>, <<"p","h","a","r","m","a","c","e","u","t","i","c","a","l">>,
    <<"m","e","d","i","c","a","l">> }

(***************************************************************************)
(* Content strings.                                                        *)
(***************************************************************************)
\* a token of a content string: a word, and whether a "." is attached to it
Tok(w, dot) == [w |-> w, dot |-> dot]

\* typeof content === 'string'; a content that is not a string (null,
\* undefined) has content_type "object" and no tokens
IsString(content_type) == content_type = "string"

WordLen(w) == Len(Chars[w])
TokenLen(t) == WordLen(t.w) + (IF t.dot THEN 1 ELSE 0)

Range(s) == {s[i] : i \in 1..Len(s)}

RECURSIVE SumLen(_, _)
SumLen(ws, i) == IF i > Len(ws) THEN 0 ELSE WordLen(ws[i]) + SumLen(ws, i + 1)

\* s.trim().length of a sentence given as its words (single spaces between)
TrimLength(ws) == IF ws = <<>> THEN 0 ELSE SumLen(ws, 1) + (Len(ws) - 1)

\* the summed length of the tokens lo..hi
RECURSIVE SumTokenLen(_, _, _)
SumTokenLen(toks, lo, hi) ==
  IF lo > hi THEN 0
  ELSE IF lo = hi THEN TokenLen(toks[lo])
  ELSE LET mid == (lo + hi) \div 2
       IN  SumTokenLen(toks, lo, mid) + SumTokenLen(toks, mid + 1, hi)

\* String.prototype.length of a content string
ContentLength(toks) ==
  IF toks = <<>> THEN 0 ELSE SumTokenLen(toks, 1, Len(toks)) + (Len(toks) - 1)

\* the words of the tokens lo..hi
WordsOf(toks, lo, hi) == [i \in 1..(hi - lo + 1) |-> toks[lo + i - 1].w]

\* text.split(/[.!?]+/) from token i on: the pieces between sentence
\* terminators, each as its words; the piece after the last terminator is
\* included (possibly empty)
RECURSIVE SplitSentences(_, _)
SplitSentences(toks, i) ==
  LET dots == {j \in i..Len(toks) : toks[j].dot}
  IN  IF dots = {} THEN <<WordsOf(toks, i, Len(toks))>>
      ELSE LET j == CHOOSE d \in dots : \A e \in dots : d <= e
           IN  <<WordsOf(toks, i, j)>> \o SplitSentences(toks, j + 1)

\* the words of the vocabulary that contain a policy keyword; the keywords
\* hold no space, so a sentence includes one iff one of its words does
PolicyWords ==
  {w \in Vocabulary : \E k \in policyKeywords : Includes(Chars[w], k)}

\* the words, and the pairs of adjacent words, that contain a critical term;
\* a critical term holds at most one space
CriticalWords ==
  {w \in Vocabulary : \E k \in criticalTerms : Includes(Chars[w], k)}
CriticalPairs ==
  {p \in Vocabulary \X Vocabulary :
     \E k \in criticalTerms : Includes(Chars[p[1]] \o <<" ">> \o Chars[p[2]], k)}

\* policyKeywords.some(keyword => lowerSentence.includes(keyword))
HasPolicyKeyword(ws) == \E i \in 1..Len(ws) : ws[i] \in PolicyWords

\* criticalTerms.some(term => sentence.includes(term))
HasCriticalTerm(ws) ==
  \/ \E i \in 1..Len(ws) : ws[i] \in CriticalWords
  \/ \E i \in 1..(Len(ws) - 1) : <<ws[i], ws[i + 1]>> \in CriticalPairs

\* the phrase "Skip to main content" of the navigation
SkipNav == <<"skip", "to", "main", "content">>

\* whether the phrase starts at token i (the phrase is unterminated in the
\* documents considered: no "." inside or right after it)
PhraseAt(toks, i, phrase) ==
  /\ i + Len(phrase) - 1 <= Len(toks)
  /\ \A j \in 1..Len(phrase) :
       toks[i + j - 1].w = phrase[j] /\ ~toks[i + j - 1].dot

\* content.replace(/<phrase>\s*/gi, ''): the tokens lo..hi that lie in no
\* occurrence of the phrase (the phrase cannot overlap itself)
RECURSIVE RemovePhraseIn(_, _, _, _)
RemovePhraseIn(toks, lo, hi, phrase) ==
  IF lo > hi THEN <<>>
  ELSE IF lo = hi
  THEN IF \E s \in (lo - Len(phrase) + 1)..lo : s >= 1 /\ PhraseAt(toks, s, phrase)
       THEN <<>> ELSE <<toks[lo]>>
  ELSE LET mid == (lo + hi) \div 2
       IN  RemovePhraseIn(toks, lo, mid, phrase) \o RemovePhraseIn(toks, mid + 1, hi, phrase)

RemovePhrase(toks, phrase) == RemovePhraseIn(toks, 1, Len(toks), phrase)

\* the separator of a breadcrumb chain, the word ">"
IsGt(t) == t.w = "gt" /\ ~t.dot

\* the first separator at or after token p, 0 when there is none
FirstGt(toks, p) ==
  LET gts == {i \in p..Len(toks) : IsGt(toks[i])}
  IN  IF gts = {} THEN 0 ELSE CHOOSE i \in gts : \A j \in gts : i <= j

\* the token after the last sentence terminator in p..(i - 1), p when none
FragmentStart(toks, p, i) ==
  LET dots == {k \in p..(i - 1) : toks[k].dot}
  IN  IF dots = {} THEN p ELSE 1 + CHOOSE k \in dots : \A l \in dots : l <= k

\* .replace(/[^.!?]*?>\s*[^.!?]*?>\s*[^.!?]*?(?=\s|$)/g, '') from token p on:
\* a match runs from the start of the sentence fragment through two
\* separators of that fragment and the word after the second one
\* i and j are the first two separators at or after p (0 when missing)
RECURSIVE RemoveChains(_, _)
RemoveChainsAt(toks, p, i, j) ==
  IF i = 0 THEN SubSeq(toks, p, Len(toks))
  ELSE IF j = 0 \/ \E k \in (i + 1)..(j - 1) : toks[k].dot
  THEN SubSeq(toks, p, i) \o RemoveChains(toks, i + 1)
  ELSE SubSeq(toks, p, FragmentStart(toks, p, i) - 1)
       \o RemoveChains(toks, (IF j < Len(toks) /\ ~toks[j + 1].dot THEN j + 1 ELSE j) + 1)

RemoveChainsFrom(toks, p, i) ==
  RemoveChainsAt(toks, p, i, IF i = 0 THEN 0 ELSE FirstGt(toks, i + 1))

RemoveChains(toks, p) == RemoveChainsFrom(toks, p, FirstGt(toks, p))

\* .replace(/>\s*[^.!?]*?(?=\s|$)/g, ''): a separator and the word after it;
\* i is the first separator at or after p
RECURSIVE RemoveGt(_, _)
RemoveGtAt(toks, p, i) ==
  IF i = 0 THEN SubSeq(toks, p, Len(toks))
  ELSE SubSeq(toks, p, i - 1)
       \o RemoveGt(toks, (IF i < Len(toks) /\ ~toks[i + 1].dot THEN i + 1 ELSE i) + 1)

RemoveGt(toks, p) == RemoveGtAt(toks, p, FirstGt(toks, p))

\* the places a breadcrumb that starts at token i can end: a "policies" with
\* no sentence terminator between the separator and it
CrumbEnds(toks, i) ==
  {k \in (i + 2)..Len(toks) :
     /\ toks[k].w = "policies"
     /\ \A l \in (i + 2)..(k - 1) : ~toks[l].dot}

\* the places at or after p a breadcrumb starts: "home" or "help" before a
\* separator, with an end
CrumbStarts(toks, p) ==
  {i \in p..(Len(toks) - 1) :
     /\ toks[i].w \in {"home", "help"} /\ ~toks[i].dot
     /\ IsGt(toks[i + 1])
     /\ CrumbEnds(toks, i) # {}}

Least(S) == CHOOSE s \in S : \A t \in S : s <= t
Greatest(S) == CHOOSE s \in S : \A t \in S : t <= s

\* .replace(/(?:Home|Help)\s*>\s*[\w\s>]*(?:policies?|...)/gi, '') from token
\* p on: from "home" or "help" before a separator through the last
\* "policies" of the run of unterminated tokens that follows
RECURSIVE RemoveHomeCrumb(_, _)
RemoveHomeCrumbFrom(toks, p, starts) ==
  IF starts = {} THEN SubSeq(toks, p, Len(toks))
  ELSE SubSeq(toks, p, Least(starts) - 1)
       \o RemoveHomeCrumb(toks, Greatest(CrumbEnds(toks, Least(starts))) + 1)

RemoveHomeCrumb(toks, p) == RemoveHomeCrumbFrom(toks, p, CrumbStarts(toks, p))

(***************************************************************************)
(* GooglePolicyDiscovery.generateContentHash                               *)
(***************************************************************************)
\* the step wrapped at 2^31, the sign bit dropped
HashStepUnsigned(h, c) ==
  LET lo == 31 * h[2] + c
      hi == 31 * h[1] + (lo \div 65536)
  IN  <<hi % 32768, lo % 65536>>

\* hash = ((hash << 5) - hash) + char; hash = hash & hash
\* The value is kept as two 16-bit halves <<hi, lo>> of its 32-bit two's
\* complement pattern, so that 31 * hash + char wraps at 2^32 as in the code.
HashStep(h, c) ==
  LET lo == 31 * h[2] + c
      hi == 31 * h[1] + (lo \div 65536)
  IN  <<hi % 65536, lo % 65536>>

\* the loop over the characters i.. of cs, started at h (the test on next
\* evaluates each step before the following one is taken)
RECURSIVE HashChars(_, _, _)
HashChars(cs, i, h) ==
  IF i > Len(cs) THEN h
  ELSE LET next == HashStep(h, charCodeAt(cs[i]))
       IN  IF next[1] >= 0 THEN HashChars(cs, i + 1, next) ELSE next

\* the hash after the characters of token i (and the space before it)
HashToken(toks, i, h) ==
  LET sep == IF i > 1 THEN HashStep(h, 32) ELSE h
      w   == HashChars(Chars[toks[i].w], 1, sep)
      d   == IF toks[i].dot THEN HashStep(w, 46) ELSE w
  IN  IF d[1] >= 0 THEN d ELSE w

\* the loop over the characters of the tokens lo..hi, started at h
RECURSIVE HashTokens(_, _, _, _)
HashTokens(toks, lo, hi, h) ==
  IF lo > hi THEN h
  ELSE IF lo = hi THEN HashToken(toks, lo, h)
  ELSE LET mid == (lo + hi) \div 2
           left == HashTokens(toks, lo, mid, h)
       IN  IF left[1] >= 0 THEN HashTokens(toks, mid + 1, hi, left) ELSE left

\* the signed 32-bit integer of a bit pattern
ToInt32(h) == IF h[1] >= 32768 THEN (h[1] - 65536) * 65536 + h[2]
              ELSE h[1] * 65536 + h[2]

\* Number.prototype.toString(36): the sign and the base-36 digits
Digit36 == <<"0","1","2","3","4","5","6","7","8","9","a","b","c","d","e","f","g","h",
             "i","j","k","l","m","n","o","p","q","r","s","t","u","v","w","x","y","z">>

RECURSIVE Digits36(_)
Digits36(n) ==
  IF n < 36 THEN <<Digit36[n + 1]>>
  ELSE Append(Digits36(n \div 36), Digit36[(n % 36) + 1])

toString36(n) == IF n < 0 THEN <<"-">> \o Digits36(0 - n) ELSE Digits36(n)

generateContentHash(content) == toString36(ToInt32(HashTokens(content, 1, Len(content), <<0, 0>>)))

(***************************************************************************)
(* ChangeDetector: the comparison functions.                               *)
(***************************************************************************)
\* new Set(str.toLowerCase().split(/\s+/).filter(w => w.length > 3))
LongWords(ws) == {ws[i] : i \in {j \in 1..Len(ws) : WordLen(ws[j]) > 3}}

\* sentenceSimilarity: the ratio intersection.size / union.size as the pair
\* <<numerator, denominator>>; 0 (as <<0, 1>>) when the union is empty
sentenceSimilarity(str1, str2) ==
  LET words1 == LongWords(str1)
      words2 == LongWords(str2)
      union  == words1 \cup words2
  IN  IF Cardinality(union) > 0
      THEN <<Cardinality(words1 \cap words2), Cardinality(union)>>
      ELSE <<0, 1>>

\* ratio > num / den
Exceeds(ratio, num, den) == ratio[1] * den > num * ratio[2]

\* extractPolicyRelevantContent: sentences longer than 20 characters that
\* hold a policy keyword
extractPolicyRelevantContent(text) ==
  LET sentences == SplitSentences(text, 1)
  IN  SelectSeq(sentences, LAMBDA s : TrimLength(s) > 20 /\ HasPolicyKeyword(s))

\* the number of sentences of `from` with no counterpart in `other` above 0.7
UnmatchedPolicySentences(from, other) ==
  Cardinality({i \in 1..Len(from) :
    ~\E j \in 1..Len(other) : Exceeds(sentenceSimilarity(from[i], other[j]), 7, 10)})

\* the difference counting the added sentences only
calculatePolicySpecificDifferenceAddedOnly(text1, text2) ==
  LET prevPolicyContent == extractPolicyRelevantContent(text1)
      currPolicyContent == extractPolicyRelevantContent(text2)
  IN  UnmatchedPolicySentences(currPolicyContent, prevPolicyContent)

\* calculatePolicySpecificDifference: addedPolicySentences.length +
\* removedPolicySentences.length
calculatePolicySpecificDifference(text1, text2) ==
  LET prevPolicyContent == extractPolicyRelevantContent(text1)
      currPolicyContent == extractPolicyRelevantContent(text2)
  IN  UnmatchedPolicySentences(currPolicyContent, prevPolicyContent)
      + UnmatchedPolicySentences(prevPolicyContent, currPolicyContent)

\* the sentences of `from` longer than 20 characters with no counterpart in
\* `other` above 0.8 (newSentences / removedSentences)
ChangedSentences(from, other) ==
  {i \in 1..Len(from) :
     /\ TrimLength(from[i]) > 20
     /\ ~\E j \in 1..Len(other) : Exceeds(sentenceSimilarity(from[i], other[j]), 8, 10)}

\* the scanner looking at the policy-relevant sentences only
containsCriticalPolicyChangesPolicyOnly(previousContent, currentContent) ==
  LET prevSentences == SplitSentences(previousContent, 1)
      currSentences == SplitSentences(currentContent, 1)
  IN  \/ \E i \in ChangedSentences(currSentences, prevSentences) :
            HasCriticalTerm(currSentences[i]) /\ HasPolicyKeyword(currSentences[i])
      \/ \E i \in ChangedSentences(prevSentences, currSentences) :
            HasCriticalTerm(prevSentences[i]) /\ HasPolicyKeyword(prevSentences[i])

\* containsCriticalPolicyChanges: a new or a removed sentence of the raw
\* contents includes a critical term
containsCriticalPolicyChanges(previousContent, currentContent) ==
  LET prevSentences == SplitSentences(previousContent, 1)
      currSentences == SplitSentences(currentContent, 1)
  IN  \/ \E i \in ChangedSentences(currSentences, prevSentences) :
            HasCriticalTerm(currSentences[i])
      \/ \E i \in ChangedSentences(prevSentences, currSentences) :
            HasCriticalTerm(prevSentences[i])

\* normalizePolicyContent: of its patterns only the "Home >" breadcrumb and
\* "Skip to main content\s*" can match a document over Vocabulary with fewer
\* than three separators; whitespace is single already and the words are
\* lower case
normalizePolicyContent(content) == RemovePhrase(RemoveHomeCrumb(content, 1), SkipNav)

\* extractPolicyCore: the breadcrumb patterns, then "Skip to main content";
\* the second breadcrumb pattern finds nothing the first one left
extractPolicyCore(content) ==
  RemovePhrase(RemoveGt(RemoveChains(content, 1), 1), SkipNav)

\* new Set(core.split(/\s+/).filter(w => w.length > 2)): the tokens keep
\* their punctuation
CoreWords(core) == {core[i] : i \in {j \in 1..Len(core) : TokenLen(core[j]) > 2}}

\* the structural detector with a threshold of 0.90
isOnlyStructuralChangeNinety(previousContent, currentContent) ==
  LET prevWords == CoreWords(extractPolicyCore(previousContent))
      currWords == CoreWords(extractPolicyCore(currentContent))
      union     == prevWords \cup currWords
      similarity == IF Cardinality(union) > 0
                    THEN <<Cardinality(prevWords \cap currWords), Cardinality(union)>>
                    ELSE <<0, 1>>
  IN  Exceeds(similarity, 90, 100)

\* the structural detector taking two empty word sets as fully similar
isOnlyStructuralChangeEmptyAlike(previousContent, currentContent) ==
  LET prevWords == CoreWords(extractPolicyCore(previousContent))
      currWords == CoreWords(extractPolicyCore(currentContent))
      union     == prevWords \cup currWords
      similarity == IF Cardinality(union) > 0
                    THEN <<Cardinality(prevWords \cap currWords), Cardinality(union)>>
                    ELSE <<1, 1>>
  IN  Exceeds(similarity, 85, 100)

\* isOnlyStructuralChange: the Jaccard similarity of the word sets of the two
\* cores is above 0.85
isOnlyStructuralChange(previousContent, currentContent) ==
  LET prevWords == CoreWords(extractPolicyCore(previousContent))
      currWords == CoreWords(extractPolicyCore(currentContent))
      union     == prevWords \cup currWords
      similarity == IF Cardinality(union) > 0
                    THEN <<Cardinality(prevWords \cap currWords), Cardinality(union)>>
                    ELSE <<0, 1>>
  IN  Exceeds(similarity, 85, 100)

\* the value of a numeric property that was never assigned
Undefined == <<>>

Abs(x) == IF x < 0 THEN 0 - x ELSE x
Max(x, y) == IF x >= y THEN x ELSE y

\* calculateSemanticDifference. Numbers are ratios <<numerator, denominator>>
\* (significantChanges is lengthDiff / 20 or policyWordDiff); isStructuralOnly
\* is FALSE where the code leaves it unset.
calculateSemanticDifference(previousContent, currentContent) ==
  LET normalizedPrevious == normalizePolicyContent(previousContent)
      normalizedCurrent  == normalizePolicyContent(currentContent)
  IN  IF normalizedPrevious = normalizedCurrent
      THEN [significantChanges |-> <<0, 1>>, isIdentical |-> TRUE,
            isStructuralOnly |-> FALSE, policyWordDiff |-> Undefined]
      ELSE IF isOnlyStructuralChange(previousContent, currentContent)
      THEN [significantChanges |-> <<0, 1>>, isIdentical |-> FALSE,
            isStructuralOnly |-> TRUE, policyWordDiff |-> Undefined]
      ELSE LET lengthDiff == Abs(ContentLength(normalizedCurrent)
                                 - ContentLength(normalizedPrevious))
               policyWordDiff ==
                 calculatePolicySpecificDifference(normalizedPrevious, normalizedCurrent)
           IN  [significantChanges |-> <<Max(lengthDiff, 20 * policyWordDiff), 20>>,
                isIdentical |-> FALSE,
                isStructuralOnly |-> FALSE,
                policyWordDiff |-> <<policyWordDiff, 1>>]


(***************************************************************************)
(* EmailService: the sentence matcher of the diff shown in the alert.      *)
(***************************************************************************)
\* normalize of improvedSentenceSimilarity on a sentence given as its words:
\* punctuation becomes a space and runs of spaces one space, so a separator
\* ">" standing as a word of its own disappears
normalize(str) == SelectSeq(str, LAMBDA w : w # "gt")

\* the characters of a normalized sentence, single spaces between its words
RECURSIVE Spell(_, _)
Spell(ws, i) ==
  IF i > Len(ws) THEN <<>>
  ELSE Chars[ws[i]] \o (IF i < Len(ws) THEN <<" ">> ELSE <<>>) \o Spell(ws, i + 1)

\* norm1.includes(norm2) || norm2.includes(norm1)
DirectSubstringMatch(norm1, norm2) ==
  \/ Includes(Spell(norm1, 1), Spell(norm2, 1))
  \/ Includes(Spell(norm2, 1), Spell(norm1, 1))

\* extractKeyPhrases: the pairs of neighbouring words both longer than 3
extractKeyPhrases(words) ==
  {<<words[i], words[i + 1]>> : i \in {j \in 1..(Len(words) - 1) :
                                   WordLen(words[j]) > 3 /\ WordLen(words[j + 1]) > 3}}

\* phraseSimilarity * 0.7 + wordSimilarity * 0.3 as a ratio
Weighted(phraseSimilarity, wordSimilarity) ==
  <<7 * phraseSimilarity[1] * wordSimilarity[2] + 3 * wordSimilarity[1] * phraseSimilarity[2],
    10 * phraseSimilarity[2] * wordSimilarity[2]>>

\* Math.max of two ratios
MaxRatio(a, b) == IF a[1] * b[2] >= b[1] * a[2] THEN a ELSE b

\* the matcher without the Math.max: the weighted combination alone
improvedSentenceSimilarityWeightedOnly(str1, str2) ==
  LET phrases1 == extractKeyPhrases(normalize(str1))
      phrases2 == extractKeyPhrases(normalize(str2))
      phraseUnion == phrases1 \cup phrases2
  IN  IF DirectSubstringMatch(normalize(str1), normalize(str2)) THEN <<95, 100>>
      ELSE IF phrases1 = {} /\ phrases2 = {} THEN sentenceSimilarity(str1, str2)
      ELSE Weighted(<<Cardinality(phrases1 \cap phrases2), Cardinality(phraseUnion)>>,
                    sentenceSimilarity(str1, str2))

\* improvedSentenceSimilarity: 0.95 for a direct substring match, the word
\* similarity when neither sentence has a key phrase, otherwise the larger of
\* the weighted combination and the word similarity
improvedSentenceSimilarity(str1, str2) ==
  LET phrases1 == extractKeyPhrases(normalize(str1))
      phrases2 == extractKeyPhrases(normalize(str2))
      phraseUnion == phrases1 \cup phrases2
  IN  IF DirectSubstringMatch(normalize(str1), normalize(str2)) THEN <<95, 100>>
      ELSE IF phrases1 = {} /\ phrases2 = {} THEN sentenceSimilarity(str1, str2)
      ELSE MaxRatio(Weighted(<<Cardinality(phrases1 \cap phrases2),
                               Cardinality(phraseUnion)>>,
                             sentenceSimilarity(str1, str2)),
                    sentenceSimilarity(str1, str2))
(***************************************************************************)
(* ChangeDetector.analyzeChanges and detectChanges.                        *)
(***************************************************************************)
\* the outcome of a call that threw (a TypeError: content.replace is not a
\* function) and the record of a call that was not made
Threw == [type |-> "THROWN", changeType |-> "THROWN", description |-> "TypeError",
          skipNotification |-> FALSE]
NotRun == [type |-> "NOT_RUN", changeType |-> "NOT_RUN", description |-> "",
           skipNotification |-> FALSE]
\* changes: null
NullChanges == [type |-> "null", changeType |-> "null", description |-> "",
                skipNotification |-> FALSE]

\* x || y on numbers
OrElse(x, y) == IF x # Undefined /\ x[1] # 0 THEN x ELSE y

\* ratio > k
GreaterThan(ratio, k) == ratio[1] > k * ratio[2]

\* ClassifyMagnitude with the bands 20 / 10 / 5
ClassifyMagnitudeWideBands(changes, policyChanges, previous_, current_) ==
  IF GreaterThan(policyChanges, 20)
  THEN [changes EXCEPT !.changeType = "MAJOR_ADDITION",
                       !.description = "Significant policy changes detected"]
  ELSE IF GreaterThan(policyChanges, 10)
  THEN [changes EXCEPT !.changeType = "MODERATE_CHANGE",
                       !.description = "Moderate policy updates detected"]
  ELSE IF GreaterThan(policyChanges, 5)
  THEN [changes EXCEPT !.changeType = "MINOR_MODIFICATION",
                       !.description = "Minor policy modifications detected"]
  ELSE IF containsCriticalPolicyChanges(previous_.content, current_.content)
  THEN [changes EXCEPT !.changeType = "CRITICAL_MINOR_CHANGE",
                       !.description = "Minor changes detected but contain critical policy terms"]
  ELSE [changes EXCEPT !.changeType = "FORMATTING_ONLY",
                       !.description = "Only formatting or insignificant changes detected",
                       !.skipNotification = TRUE]

\* ClassifyMagnitude without the critical-term check of its last branch
ClassifyMagnitudeNoCritical(changes, policyChanges, previous_, current_) ==
  IF GreaterThan(policyChanges, 15)
  THEN [changes EXCEPT !.changeType = "MAJOR_ADDITION",
                       !.description = "Significant policy changes detected"]
  ELSE IF GreaterThan(policyChanges, 8)
  THEN [changes EXCEPT !.changeType = "MODERATE_CHANGE",
                       !.description = "Moderate policy updates detected"]
  ELSE IF GreaterThan(policyChanges, 3)
  THEN [changes EXCEPT !.changeType = "MINOR_MODIFICATION",
                       !.description = "Minor policy modifications detected"]
  ELSE [changes EXCEPT !.changeType = "FORMATTING_ONLY",
                       !.description = "Only formatting or insignificant changes detected",
                       !.skipNotification = TRUE]

\* the classification by policyChanges (the if / else-if chain); it assigns
\* changeType and description in every branch
ClassifyMagnitude(changes, policyChanges, previous_, current_) ==
  IF GreaterThan(policyChanges, 15)
  THEN [changes EXCEPT !.changeType = "MAJOR_ADDITION",
                       !.description = "Significant policy changes detected"]
  ELSE IF GreaterThan(policyChanges, 8)
  THEN [changes EXCEPT !.changeType = "MODERATE_CHANGE",
                       !.description = "Moderate policy updates detected"]
  ELSE IF GreaterThan(policyChanges, 3)
  THEN [changes EXCEPT !.changeType = "MINOR_MODIFICATION",
                       !.description = "Minor policy modifications detected"]
  ELSE IF containsCriticalPolicyChanges(previous_.content, current_.content)
  THEN [changes EXCEPT !.changeType = "CRITICAL_MINOR_CHANGE",
                       !.description = "Minor changes detected but contain critical policy terms"]
  ELSE [changes EXCEPT !.changeType = "FORMATTING_ONLY",
                       !.description = "Only formatting or insignificant changes detected",
                       !.skipNotification = TRUE]

\* analyzeChanges(previous, current). skipNotification is FALSE where the code
\* leaves it unset. A content that is not a string makes content.replace throw
\* in normalizePolicyContent, and nothing in the function catches it.
analyzeChanges(previous_, current_) ==
  IF ~IsString(previous_.content_type) \/ ~IsString(current_.content_type) THEN Threw
  ELSE
  LET changes == [type |-> "CONTENT_MODIFIED", changeType |-> "undefined",
                  description |-> "undefined", skipNotification |-> FALSE]
      semanticDiff == calculateSemanticDifference(previous_.content, current_.content)
      policyChanges == OrElse(semanticDiff.policyWordDiff, semanticDiff.significantChanges)
  IN  IF semanticDiff.isStructuralOnly
      THEN IF containsCriticalPolicyChanges(previous_.content, current_.content)
           THEN \* no return here: the classification below runs and overwrites
                ClassifyMagnitude(
                  [changes EXCEPT !.changeType = "CRITICAL_POLICY_IN_STRUCTURAL",
                                  !.description = "Critical policy changes detected within structural updates"],
                  policyChanges, previous_, current_)
           ELSE [changes EXCEPT !.changeType = "STRUCTURAL_ONLY",
                                !.description = "Only website navigation or structural changes detected",
                                !.skipNotification = TRUE]
      ELSE ClassifyMagnitude(changes, policyChanges, previous_, current_)

\* loadPreviousSnapshot found nothing
NoSnapshot == [url |-> "", content |-> <<>>, content_type |-> "undefined",
               contentHash |-> <<>>, exists |-> FALSE]

\* the changes of a first sighting, without the changeType field
NewPolicyChangesUntyped ==
  [type |-> "NEW_POLICY", changeType |-> "undefined",
   description |-> "New policy detected", skipNotification |-> FALSE]

\* the changes object returned for a url with no previous snapshot
NewPolicyChanges ==
  [type |-> "NEW_POLICY", changeType |-> "NEW_POLICY",
   description |-> "New policy detected", skipNotification |-> FALSE]

\* the hash comparison with === in the place of !==
hasContentChangedInverted(previousSnapshot, currentData) ==
  previousSnapshot.contentHash = currentData.contentHash

\* const hasContentChanged = previousSnapshot.contentHash !== currentData.contentHash
hasContentChanged(previousSnapshot, currentData) ==
  previousSnapshot.contentHash # currentData.contentHash

\* detectChanges without the skipNotification test: every analysed pair is
\* returned as a change
detectChangesNoSkip(previousSnapshot, currentData) ==
  IF ~previousSnapshot.exists
  THEN [done |-> TRUE, threw |-> FALSE, isNew |-> TRUE, hasChanges |-> FALSE,
        changes |-> NewPolicyChanges, analysis |-> NotRun]
  ELSE IF ~hasContentChanged(previousSnapshot, currentData)
  THEN [done |-> TRUE, threw |-> FALSE, isNew |-> FALSE, hasChanges |-> FALSE,
        changes |-> NullChanges, analysis |-> NotRun]
  ELSE LET changes == analyzeChanges(previousSnapshot, currentData)
       IN  IF changes = Threw
           THEN [done |-> TRUE, threw |-> TRUE, isNew |-> FALSE, hasChanges |-> FALSE,
                 changes |-> NullChanges, analysis |-> Threw]
           ELSE [done |-> TRUE, threw |-> FALSE, isNew |-> FALSE, hasChanges |-> TRUE,
                 changes |-> changes, analysis |-> changes]

\* detectChanges handing back the skipped classification in `changes`
detectChangesKeepsSkipped(previousSnapshot, currentData) ==
  IF ~previousSnapshot.exists
  THEN [done |-> TRUE, threw |-> FALSE, isNew |-> TRUE, hasChanges |-> FALSE,
        changes |-> NewPolicyChanges, analysis |-> NotRun]
  ELSE IF ~hasContentChanged(previousSnapshot, currentData)
  THEN [done |-> TRUE, threw |-> FALSE, isNew |-> FALSE, hasChanges |-> FALSE,
        changes |-> NullChanges, analysis |-> NotRun]
  ELSE LET changes == analyzeChanges(previousSnapshot, currentData)
       IN  IF changes = Threw
           THEN [done |-> TRUE, threw |-> TRUE, isNew |-> FALSE, hasChanges |-> FALSE,
                 changes |-> NullChanges, analysis |-> Threw]
           ELSE [done |-> TRUE, threw |-> FALSE, isNew |-> FALSE,
                 hasChanges |-> ~changes.skipNotification,
                 changes |-> changes, analysis |-> changes]

\* detectChanges after loadPreviousSnapshot returned previousSnapshot.
\* threw: the call ended in an exception; analysis: what analyzeChanges
\* returned, NotRun when it was not called.
detectChanges(previousSnapshot, currentData) ==
  IF ~previousSnapshot.exists
  THEN [done |-> TRUE, threw |-> FALSE, isNew |-> TRUE, hasChanges |-> FALSE,
        changes |-> NewPolicyChanges, analysis |-> NotRun]
  ELSE IF ~hasContentChanged(previousSnapshot, currentData)
  THEN [done |-> TRUE, threw |-> FALSE, isNew |-> FALSE, hasChanges |-> FALSE,
        changes |-> NullChanges, analysis |-> NotRun]
  ELSE LET changes == analyzeChanges(previousSnapshot, currentData)
       IN  IF changes = Threw
           THEN [done |-> TRUE, threw |-> TRUE, isNew |-> FALSE, hasChanges |-> FALSE,
                 changes |-> NullChanges, analysis |-> Threw]
           ELSE IF changes.skipNotification
           THEN [done |-> TRUE, threw |-> FALSE, isNew |-> FALSE, hasChanges |-> FALSE,
                 changes |-> NullChanges, analysis |-> changes]
           ELSE [done |-> TRUE, threw |-> FALSE, isNew |-> FALSE, hasChanges |-> TRUE,
                 changes |-> changes, analysis |-> changes]

\* no call has returned yet
Pending == [done |-> FALSE, threw |-> FALSE, isNew |-> FALSE, hasChanges |-> FALSE,
            changes |-> NullChanges, analysis |-> NotRun]

(***************************************************************************)
(* PolicyMonitor.monitorPolicies with the snapshot storage.                *)
(***************************************************************************)
\* the configured urls, in list order
policyUrls == <<"u1", "u2">>
Urls == Range(policyUrls)

\* one iteration of the for loop, as it ended:
\*   extracted    extractPolicyContent returned data (not null)
\*   loaded       what loadPreviousSnapshot returned
\*   result       what detectChanges returned
\*   saveCalled   saveSnapshot was called; saved: it returned
\*   alertCalled  sendPolicyChangeAlert was called
\*   caught       the catch block of the loop ran
Iteration(url, extracted, data, loaded, result, saveCalled, saved, alertCalled, caught) ==
  [url |-> url, extracted |-> extracted, data |-> data, loaded |-> loaded,
   result |-> result, saveCalled |-> saveCalled, saved |-> saved,
   alertCalled |-> alertCalled, caught |-> caught]

NoIteration ==
  Iteration("", FALSE, NoSnapshot, NoSnapshot, Pending, FALSE, FALSE, FALSE, FALSE)

\* ChangeDetector.loadPreviousSnapshot(url) -> the snapshot or NoSnapshot
\* (null), with the flags it leaves. MongoStorage.loadPreviousSnapshot
\* connects when needed and answers null when connect or findOne fails (it
\* catches the error), so the fallback of the detector never runs for a load.
LoadPreviousSnapshot(url, mongoOk, fileReadOk) ==
  IF useMongoDb
  THEN [snapshot |-> IF mongoOk THEN mongoStore[url] ELSE NoSnapshot,
        connected |-> mongoConnected \/ mongoOk]
  ELSE [snapshot |-> IF fileReadOk THEN fileStore[url] ELSE NoSnapshot,
        connected |-> mongoConnected]

\* ChangeDetector.saveSnapshot(policyData), called with isConnected = connected:
\* MongoDB when enabled; when replaceOne (or the connect before it) fails the
\* detector turns MongoDB off and writes the file; a failed writeFile throws.
SaveSnapshot(policyData, connected, mongoOk, fileWriteOk) ==
  IF useMongoDb /\ mongoOk
  THEN [threw |-> FALSE, useMongoDb |-> TRUE, connected |-> TRUE,
        mongoStore |-> [mongoStore EXCEPT ![policyData.url] = policyData],
        fileStore |-> fileStore]
  ELSE [threw |-> ~fileWriteOk, useMongoDb |-> FALSE, connected |-> connected,
        mongoStore |-> mongoStore,
        fileStore |-> IF fileWriteOk
                      THEN [fileStore EXCEPT ![policyData.url] = policyData]
                      ELSE fileStore]

\* no alert on record for a url
NoAlert == [data |-> NoSnapshot, times |-> 0]

\* the entry pushed to this.results
ResultEntry(url, changeResult, analysed) ==
  [url |-> url, isNew |-> changeResult.isNew, hasChanges |-> changeResult.hasChanges,
   changeType |-> changeResult.changes.changeType, complianceAnalysis |-> analysed]

(***************************************************************************)
(* Documents.                                                              *)
(***************************************************************************)
\* the sentences documents are built from
Sentences ==
  << <<"ads", "must", "not", "promote", "gambling", "services">>,
     <<"advertiser", "content", "policy", "applies">>,
     <<"thanks", "for", "visiting", "this", "website">>,
     <<"online", "gambling", "banned", "everywhere">>,
     <<"fees", "apply">>,
     <<"visitors", "enjoy", "this", "website">>,
     <<"it", "is", "ads", "must", "not", "promote">>,
     <<"ads", "fee", "is", "not", "for", "ads", "not", "it">> >>

SentenceIds == 1..Len(Sentences)
\* the sentences that may close a document
TailIds == {4, 7}
\* the sentences a monitored page is made of
PageSentenceIds == {1, 2, 3}

\* a sentence as tokens, its last word carrying the "."
SentenceToks(k) ==
  [i \in 1..Len(Sentences[k]) |-> Tok(Sentences[k][i], i = Len(Sentences[k]))]

RECURSIVE Rep(_, _)
Rep(s, n) == IF n = 0 THEN <<>> ELSE s \o Rep(s, n - 1)

NavToks == [i \in 1..Len(SkipNav) |-> Tok(SkipNav[i], FALSE)]

\* an optional navigation phrase, n times sentence a, m times sentence b
MkDoc(nav, a, n, b, m) ==
  (IF nav THEN NavToks ELSE <<>>) \o Rep(SentenceToks(a), n) \o Rep(SentenceToks(b), m)

\* what extractPolicyContent returns for a page (title and the timestamps
\* lastModified, extractedAt left out), which is also what saveSnapshot stores
PolicyData(url, content) ==
  [url |-> url, content |-> content, content_type |-> "string",
   contentHash |-> generateContentHash(content), exists |-> TRUE]

\* the sentences repeated up to MaxRep times: two with policy keywords, one
\* without
RepeatedIds == {1, 2, 3}

\* documents without a word longer than 2 characters
ShortDocs == {<<Tok("it", FALSE), Tok("is", FALSE)>>, <<Tok("is", FALSE), Tok("it", FALSE)>>}

\* the navigation phrase written inside itself, alone and before a sentence
NestedNavToks ==
  SubSeq(NavToks, 1, Len(NavToks) - 1) \o NavToks \o SubSeq(NavToks, Len(NavToks), Len(NavToks))
NestedNavDocs == {NestedNavToks, NestedNavToks \o SentenceToks(5)}

\* a breadcrumb chain "home > mid > ads", and the documents that begin with
\* one: the chain and a sentence
Crumb(mid) ==
  <<Tok("home", FALSE), Tok("gt", FALSE), Tok(mid, FALSE), Tok("gt", FALSE),
    Tok("ads", FALSE)>>
BreadcrumbDocs(mids) == {Crumb(mid) \o SentenceToks(a) : mid \in mids, a \in {1, 3}}

\* the documents assessed: the current one is a sentence repeated, behind the
\* navigation phrase or followed by a closing sentence, or a short document;
\* the previous one is a single sentence, empty or a short document
CurrentDocs ==
  {MkDoc(nav, a, n, 4, 0) : nav \in BOOLEAN, a \in SentenceIds, n \in 0..2}
  \cup {MkDoc(FALSE, a, n, 4, 0) : a \in RepeatedIds, n \in 3..MaxRep}
  \cup {MkDoc(FALSE, a, n, b, 1) : a \in SentenceIds, n \in 0..2, b \in TailIds}
  \cup ShortDocs
  \cup NestedNavDocs
  \cup BreadcrumbDocs({"policies", "help"})
PreviousDocs ==
  {MkDoc(FALSE, a, n, 4, 0) : a \in SentenceIds, n \in 0..1}
  \cup {<<Tok("it", FALSE), Tok("is", FALSE)>>}
  \cup BreadcrumbDocs({"policies"})

\* a stored snapshot whose content is not a string
BrokenSnapshot ==
  [url |-> "u1", content |-> <<>>, content_type |-> "object",
   contentHash |-> generateContentHash(SentenceToks(1)), exists |-> TRUE]

PreviousInputs ==
  {NoSnapshot, BrokenSnapshot} \cup {PolicyData("u1", d) : d \in PreviousDocs}
CurrentInputs ==
  {[PolicyData("u1", <<>>) EXCEPT !.content_type = "object"]}
  \cup {PolicyData("u1", d) : d \in CurrentDocs}

(***************************************************************************)
(* The classifier applied to a pair of snapshots.                          *)
(***************************************************************************)
\* the initializer before it starts: empty lists (first-run.js:18-19), every
\* url in config/policy-urls.json, no document without a url
FirstRunIdle ==
  /\ validUrls = <<>>
  /\ deadUrls = <<>>
  /\ config = Urls
  /\ unkeyed = NoSnapshot

\* no e-mail service constructed
EmailIdle ==
  /\ emailEnv = [smtp |-> FALSE, alertEmail |-> FALSE]
  /\ transporter = "null"
  /\ verification = "none"
  /\ alertCount = 0
  /\ mailLog = <<>>

\* the monitor at rest, before any run
MonitorIdle ==
  /\ envUseMongoDb = FALSE
  /\ useMongoDb = FALSE
  /\ mongoConnected = FALSE
  /\ fileStore = [u \in Urls |-> NoSnapshot]
  /\ mongoStore = [u \in Urls |-> NoSnapshot]
  /\ pc = "idle"
  /\ run = 0
  /\ idx = 1
  /\ results = <<>>
  /\ iter = NoIteration
  /\ lastSaved = [u \in Urls |-> NoSnapshot]
  /\ baseline = NoSnapshot
  /\ alerted = [u \in Urls |-> NoAlert]

InitAssess ==
  /\ previous \in PreviousInputs
  /\ current \in CurrentInputs
  /\ assessment = Pending
  /\ MonitorIdle
  /\ FirstRunIdle
  /\ EmailIdle

Assess ==
  /\ ~assessment.done
  /\ assessment' = detectChanges(previous, current)
  /\ UNCHANGED <<previous, current>>
  /\ UNCHANGED monitorVars
  /\ UNCHANGED emailVars
  /\ UNCHANGED firstRunVars

NextAssess == Assess

SpecAssess == InitAssess /\ [][NextAssess]_vars

\* the signals of the pair under assessment
HashesDiffer == previous.exists /\ previous.contentHash # current.contentHash
BothStrings == IsString(previous.content_type) /\ IsString(current.content_type)
SemanticDiff == calculateSemanticDifference(previous.content, current.content)
CriticalScanner == containsCriticalPolicyChanges(previous.content, current.content)
Magnitude ==
  calculatePolicySpecificDifference(normalizePolicyContent(previous.content),
                                    normalizePolicyContent(current.content))

(***************************************************************************)
(* The monitor: runs of monitorPolicies over policyUrls.                   *)
(***************************************************************************)
\* the contents a page can have when it is extracted
Pages == {SentenceToks(a) : a \in PageSentenceIds}

\* extractPolicyContent(url) for each content the page can have
Extracted == [u \in Urls |-> [page \in Pages |-> PolicyData(u, page)]]

\* the snapshots that can be stored for a url, NoSnapshot when there is none
Snapshots(u) == {NoSnapshot} \cup {Extracted[u][page] : page \in Pages}

\* this.changeDetector.detectChanges(currentData) for each snapshot the
\* load can return and each extracted page
Detected ==
  [u \in Urls |-> [prev \in Snapshots(u) |-> [page \in Pages |->
     detectChanges(prev, Extracted[u][page])]]]

\* the outcomes of an I/O operation: it succeeds or fails when the iteration
\* reaches it, and is left out of the choice (TRUE) when it does not
Outcomes(reached) == IF reached THEN BOOLEAN ELSE {TRUE}

Init ==
  /\ previous = NoSnapshot
  /\ current = NoSnapshot
  /\ assessment = Pending
  /\ envUseMongoDb \in BOOLEAN
  /\ useMongoDb = envUseMongoDb
  /\ mongoConnected = FALSE
  /\ fileStore = [u \in Urls |-> NoSnapshot]
  /\ mongoStore = [u \in Urls |-> NoSnapshot]
  /\ pc = "idle"
  /\ run = 0
  /\ idx = 1
  /\ results = <<>>
  /\ iter = NoIteration
  /\ lastSaved = [u \in Urls |-> NoSnapshot]
  /\ baseline = NoSnapshot
  /\ alerted = [u \in Urls |-> NoAlert]
  /\ FirstRunIdle
  /\ EmailIdle

\* main(): a new PolicyMonitor (new ChangeDetector, new MongoStorage, empty
\* results) enters monitorPolicies
StartRun ==
  /\ pc = "idle"
  /\ run < MaxRuns
  /\ pc' = "running"
  /\ run' = run + 1
  /\ idx' = 1
  /\ results' = <<>>
  /\ useMongoDb' = envUseMongoDb
  /\ mongoConnected' = FALSE
  /\ UNCHANGED <<envUseMongoDb, fileStore, mongoStore, iter, lastSaved, baseline, alerted>>
  /\ UNCHANGED classifierVars
  /\ UNCHANGED emailVars
  /\ UNCHANGED firstRunVars

\* the save condition with isNew forgotten
hasChangesOnly(changeResult) == changeResult.hasChanges

\* if (changeResult.hasChanges || changeResult.isNew): analyse and save
hasChangesOrIsNew(changeResult) == changeResult.hasChanges \/ changeResult.isNew

\* if (changeResult.hasChanges && !changeResult.isNew): send the alert
hasChangesNotNew(changeResult) == changeResult.hasChanges /\ ~changeResult.isNew

\* the body with the test of currentData left out: a null still gets an entry
LoopBodyNullPushed(url, extractOk, currentData, loaded, changeResult, save, alertOk) ==
  LET persist == hasChangesOrIsNew(changeResult)
      alert == hasChangesNotNew(changeResult)
  IN
  IF ~extractOk
  THEN \* currentData is null: continue
       /\ iter' = Iteration(url, FALSE, NoSnapshot, NoSnapshot, Pending,
                            FALSE, FALSE, FALSE, FALSE)
       /\ results' = Append(results, ResultEntry(url, Pending, FALSE))
       /\ UNCHANGED <<useMongoDb, mongoConnected, fileStore, mongoStore>>
  ELSE IF changeResult.threw
  THEN \* detectChanges threw: the catch block logs the error
       /\ iter' = Iteration(url, TRUE, currentData, loaded.snapshot, changeResult,
                            FALSE, FALSE, FALSE, TRUE)
       /\ mongoConnected' = loaded.connected
       /\ UNCHANGED <<useMongoDb, fileStore, mongoStore, results>>
  ELSE IF persist /\ save.threw
  THEN \* saveSnapshot threw: no result is pushed and no alert is sent
       /\ iter' = Iteration(url, TRUE, currentData, loaded.snapshot, changeResult,
                            TRUE, FALSE, FALSE, TRUE)
       /\ useMongoDb' = save.useMongoDb
       /\ mongoConnected' = save.connected
       /\ fileStore' = save.fileStore
       /\ mongoStore' = save.mongoStore
       /\ UNCHANGED results
  ELSE \* analyzePolicyForCrawl5 catches its own errors and returns null; the
       \* result is pushed, and building the alert may still throw
       /\ iter' = Iteration(url, TRUE, currentData, loaded.snapshot, changeResult,
                            persist, persist, alert, alert /\ ~alertOk)
       /\ useMongoDb' = IF persist THEN save.useMongoDb ELSE useMongoDb
       /\ mongoConnected' = IF persist THEN save.connected ELSE loaded.connected
       /\ fileStore' = IF persist THEN save.fileStore ELSE fileStore
       /\ mongoStore' = IF persist THEN save.mongoStore ELSE mongoStore
       /\ results' = Append(results, ResultEntry(url, changeResult, persist))

\* the body of the try block of one iteration, given what its calls return:
\* currentData from extractPolicyContent, loaded and changeResult from
\* detectChanges, save from saveSnapshot if it is called
LoopBody(url, extractOk, currentData, loaded, changeResult, save, alertOk) ==
  LET persist == hasChangesOrIsNew(changeResult)
      alert == hasChangesNotNew(changeResult)
  IN
  IF ~extractOk
  THEN \* currentData is null: continue
       /\ iter' = Iteration(url, FALSE, NoSnapshot, NoSnapshot, Pending,
                            FALSE, FALSE, FALSE, FALSE)
       /\ UNCHANGED <<useMongoDb, mongoConnected, fileStore, mongoStore, results>>
  ELSE IF changeResult.threw
  THEN \* detectChanges threw: the catch block logs the error
       /\ iter' = Iteration(url, TRUE, currentData, loaded.snapshot, changeResult,
                            FALSE, FALSE, FALSE, TRUE)
       /\ mongoConnected' = loaded.connected
       /\ UNCHANGED <<useMongoDb, fileStore, mongoStore, results>>
  ELSE IF persist /\ save.threw
  THEN \* saveSnapshot threw: no result is pushed and no alert is sent
       /\ iter' = Iteration(url, TRUE, currentData, loaded.snapshot, changeResult,
                            TRUE, FALSE, FALSE, TRUE)
       /\ useMongoDb' = save.useMongoDb
       /\ mongoConnected' = save.connected
       /\ fileStore' = save.fileStore
       /\ mongoStore' = save.mongoStore
       /\ UNCHANGED results
  ELSE \* analyzePolicyForCrawl5 catches its own errors and returns null; the
       \* result is pushed, and building the alert may still throw
       /\ iter' = Iteration(url, TRUE, currentData, loaded.snapshot, changeResult,
                            persist, persist, alert, alert /\ ~alertOk)
       /\ useMongoDb' = IF persist THEN save.useMongoDb ELSE useMongoDb
       /\ mongoConnected' = IF persist THEN save.connected ELSE loaded.connected
       /\ fileStore' = IF persist THEN save.fileStore ELSE fileStore
       /\ mongoStore' = IF persist THEN save.mongoStore ELSE mongoStore
       /\ results' = Append(results, ResultEntry(url, changeResult, persist))

\* one iteration of the for loop of monitorPolicies, try and catch included
ProcessUrl ==
  /\ pc = "running"
  /\ idx <= Len(policyUrls)
  /\ \E extractOk \in BOOLEAN :
     \E page \in IF extractOk THEN Pages ELSE {SentenceToks(1)} :
     \E mongoLoadOk \in Outcomes(extractOk /\ useMongoDb) :
     \E fileReadOk \in Outcomes(extractOk /\ ~useMongoDb) :
     \E mongoSaveOk \in Outcomes(extractOk /\ useMongoDb) :
     \E fileWriteOk \in Outcomes(extractOk /\ ~(useMongoDb /\ mongoSaveOk)) :
     \E alertOk \in Outcomes(extractOk) :
     \E loaded \in {LoadPreviousSnapshot(policyUrls[idx], mongoLoadOk, fileReadOk)} :
       LoopBody(policyUrls[idx], extractOk, Extracted[policyUrls[idx]][page], loaded,
                Detected[policyUrls[idx]][loaded.snapshot][page],
                SaveSnapshot(Extracted[policyUrls[idx]][page], loaded.connected,
                             mongoSaveOk, fileWriteOk), alertOk)
  /\ baseline' = lastSaved[policyUrls[idx]]
  /\ lastSaved' = IF iter'.saved
                  THEN [lastSaved EXCEPT ![policyUrls[idx]] = iter'.data]
                  ELSE lastSaved
  /\ alerted' = [alerted EXCEPT ![policyUrls[idx]] =
                   IF ~iter'.extracted THEN @
                   ELSE IF iter'.alertCalled
                   THEN [data |-> iter'.data,
                         times |-> IF @.data = iter'.data THEN @.times + 1 ELSE 1]
                   ELSE IF @.data = iter'.data THEN @
                   ELSE NoAlert]
  /\ idx' = idx + 1
  /\ UNCHANGED <<envUseMongoDb, pc, run>>
  /\ UNCHANGED classifierVars
  /\ UNCHANGED emailVars
  /\ UNCHANGED firstRunVars

\* the for loop is over: monitorPolicies returns, cleanup closes the MongoDB
\* connection and the process ends
FinishRun ==
  /\ pc = "running"
  /\ idx > Len(policyUrls)
  /\ pc' = "idle"
  /\ mongoConnected' = IF useMongoDb /\ mongoConnected THEN FALSE ELSE mongoConnected
  /\ UNCHANGED <<envUseMongoDb, useMongoDb, fileStore, mongoStore,
                 run, idx, results, iter, lastSaved, baseline, alerted>>
  /\ UNCHANGED classifierVars
  /\ UNCHANGED emailVars
  /\ UNCHANGED firstRunVars

Next == StartRun \/ ProcessUrl \/ FinishRun

Spec == Init /\ [][Next]_vars

\* the runs with the loop going on: every awaited call returns or throws, so
\* an iteration that can be taken is taken, and so is the return
SpecFair == Spec /\ WF_vars(ProcessUrl) /\ WF_vars(FinishRun)

\* the snapshot an earlier process of the monitor left for the first url
Seed == Extracted[policyUrls[1]][SentenceToks(1)]

\* main() over a store that already holds a snapshot of the first url, in
\* MongoDB when USE_MONGODB is set and in the snapshot file otherwise
InitSeeded ==
  /\ previous = NoSnapshot
  /\ current = NoSnapshot
  /\ assessment = Pending
  /\ envUseMongoDb \in BOOLEAN
  /\ useMongoDb = envUseMongoDb
  /\ mongoConnected = FALSE
  /\ fileStore = [u \in Urls |-> IF u = policyUrls[1] /\ ~envUseMongoDb
                                  THEN Seed ELSE NoSnapshot]
  /\ mongoStore = [u \in Urls |-> IF u = policyUrls[1] /\ envUseMongoDb
                                   THEN Seed ELSE NoSnapshot]
  /\ pc = "idle"
  /\ run = 0
  /\ idx = 1
  /\ results = <<>>
  /\ iter = NoIteration
  /\ lastSaved = [u \in Urls |-> IF u = policyUrls[1] THEN Seed ELSE NoSnapshot]
  /\ baseline = NoSnapshot
  /\ alerted = [u \in Urls |-> NoAlert]
  /\ FirstRunIdle
  /\ EmailIdle

SpecSeeded == InitSeeded /\ [][Next]_vars


(***************************************************************************)
(* The first-run initializer (src/scripts/first-run.js).                   *)
(***************************************************************************)
\* Google's "page not found" page
NotFoundPage == <<Tok("page", FALSE), Tok("not", FALSE), Tok("found", TRUE)>>

\* the contents extractPolicyContent can return to the initializer: none, the
\* not-found page, or a policy page
FirstRunPages == {<<>>, NotFoundPage} \cup Pages

\* pageNotFoundPatterns.some(pattern => content.includes(pattern)): of the
\* patterns only 'page not found' can be written with the words of Chars
isPageNotFound(content) ==
  \E i \in 1..(Len(content) - 2) :
    /\ content[i].w = "page" /\ ~content[i].dot
    /\ content[i + 1].w = "not" /\ ~content[i + 1].dot
    /\ content[i + 2].w = "found"

\* what MongoStorage.saveSnapshot stores for a policyData that is a string:
\* url, title, content and contentHash are all undefined
UnkeyedDocument == [NoSnapshot EXCEPT !.exists = TRUE]

\* this.monitor.changeDetector.saveSnapshot(url, currentData): saveSnapshot
\* takes one parameter, so policyData is the url, a string. With MongoDB the
\* document {url: undefined, ...} is upserted; otherwise, and when the MongoDB
\* save fails, getSnapshotPath(policyData.url) calls replace on undefined and
\* throws a TypeError
SaveSnapshotOfUrl(connected, mongoOk) ==
  IF useMongoDb /\ mongoOk
  THEN [threw |-> FALSE, useMongoDb |-> TRUE, connected |-> TRUE,
        unkeyed |-> UnkeyedDocument]
  ELSE [threw |-> TRUE, useMongoDb |-> FALSE, connected |-> connected,
        unkeyed |-> unkeyed]

InitFirstRun ==
  /\ previous = NoSnapshot
  /\ current = NoSnapshot
  /\ assessment = Pending
  /\ envUseMongoDb \in BOOLEAN
  /\ useMongoDb = envUseMongoDb
  /\ mongoConnected = FALSE
  /\ fileStore = [u \in Urls |-> NoSnapshot]
  /\ mongoStore = [u \in Urls |-> NoSnapshot]
  /\ pc = "validating"
  /\ run = 0
  /\ idx = 1
  /\ results = <<>>
  /\ iter = NoIteration
  /\ lastSaved = [u \in Urls |-> NoSnapshot]
  /\ baseline = NoSnapshot
  /\ alerted = [u \in Urls |-> NoAlert]
  /\ FirstRunIdle
  /\ EmailIdle

\* the body of the try block of one iteration of validateAndCreateBaselines
\* with its catch block, given what its calls return
ValidateBody(url, extractOk, currentData, save) ==
  IF ~extractOk
  THEN \* currentData is null: currentData.content throws, the catch block
       \* pushes the url to deadUrls
       /\ deadUrls' = Append(deadUrls, url)
       /\ iter' = Iteration(url, FALSE, NoSnapshot, NoSnapshot, Pending,
                            FALSE, FALSE, FALSE, TRUE)
       /\ UNCHANGED <<validUrls, useMongoDb, mongoConnected, unkeyed>>
  ELSE IF currentData.content = <<>> \/ isPageNotFound(currentData.content)
  THEN \* no content, or a not-found page: a dead url
       /\ deadUrls' = Append(deadUrls, url)
       /\ iter' = Iteration(url, TRUE, currentData, NoSnapshot, Pending,
                            FALSE, FALSE, FALSE, FALSE)
       /\ UNCHANGED <<validUrls, useMongoDb, mongoConnected, unkeyed>>
  ELSE \* the url is valid: push it and save the baseline
       /\ validUrls' = Append(validUrls, url)
       /\ deadUrls' = IF save.threw THEN Append(deadUrls, url) ELSE deadUrls
       /\ iter' = Iteration(url, TRUE, currentData, NoSnapshot, Pending,
                            TRUE, ~save.threw, FALSE, save.threw)
       /\ useMongoDb' = save.useMongoDb
       /\ mongoConnected' = save.connected
       /\ unkeyed' = save.unkeyed

\* one iteration of the for loop of validateAndCreateBaselines
ValidateUrl ==
  /\ pc = "validating"
  /\ idx <= Len(policyUrls)
  /\ \E extractOk \in BOOLEAN :
     \E page \in IF extractOk THEN FirstRunPages ELSE {<<>>} :
     \E mongoOk \in Outcomes(extractOk /\ page \in Pages /\ useMongoDb) :
       ValidateBody(policyUrls[idx], extractOk, PolicyData(policyUrls[idx], page),
                    SaveSnapshotOfUrl(mongoConnected, mongoOk))
  /\ idx' = idx + 1
  /\ UNCHANGED <<envUseMongoDb, fileStore, mongoStore, pc, run, results,
                 lastSaved, baseline, alerted, config>>
  /\ UNCHANGED classifierVars
  /\ UNCHANGED emailVars

\* updateConfiguration: the dead urls are deleted from policy-urls.json
UpdateConfiguration ==
  /\ pc = "validating"
  /\ idx > Len(policyUrls)
  /\ config' = IF deadUrls = <<>> THEN config ELSE config \ Range(deadUrls)
  /\ pc' = "configured"
  /\ UNCHANGED <<envUseMongoDb, useMongoDb, mongoConnected, fileStore, mongoStore,
                 run, idx, results, iter, lastSaved, baseline, alerted,
                 validUrls, deadUrls, unkeyed>>
  /\ UNCHANGED classifierVars
  /\ UNCHANGED emailVars

\* generateReport, then cleanup closes the MongoDB connection
FinishFirstRun ==
  /\ pc = "configured"
  /\ pc' = "initialized"
  /\ mongoConnected' = FALSE
  /\ UNCHANGED <<envUseMongoDb, useMongoDb, fileStore, mongoStore,
                 run, idx, results, iter, lastSaved, baseline, alerted>>
  /\ UNCHANGED firstRunVars
  /\ UNCHANGED classifierVars
  /\ UNCHANGED emailVars

NextFirstRun == ValidateUrl \/ UpdateConfiguration \/ FinishFirstRun

SpecFirstRun == InitFirstRun /\ [][NextFirstRun]_vars

(***************************************************************************)
(* EmailService: the constructor, its un-awaited initialize() and the      *)
(* alerts.                                                                 *)
(***************************************************************************)
\* new EmailService() for each setting of the environment: the constructor
\* sets transporter to null and calls initialize() without awaiting it;
\* initialize runs up to its first await inside the constructor: it returns
\* when SMTP_USER, SMTP_PASS or ALERT_EMAIL is missing, otherwise it creates
\* the transporter and stops at `await this.transporter.verify()`
InitEmail ==
  /\ previous = NoSnapshot
  /\ current = NoSnapshot
  /\ assessment = Pending
  /\ MonitorIdle
  /\ FirstRunIdle
  /\ emailEnv \in [smtp : BOOLEAN, alertEmail : BOOLEAN]
  /\ transporter = IF emailEnv.smtp /\ emailEnv.alertEmail THEN "created" ELSE "null"
  /\ verification = IF emailEnv.smtp /\ emailEnv.alertEmail THEN "pending" ELSE "none"
  /\ alertCount = 0
  /\ mailLog = <<>>

\* initialize() resumes after the await: verify() resolved, or it rejected
\* and the catch block sets transporter to null
VerifyCompletes ==
  /\ verification = "pending"
  /\ \E ok \in BOOLEAN :
       /\ verification' = IF ok THEN "verified" ELSE "failed"
       /\ transporter' = IF ok THEN transporter ELSE "null"
  /\ UNCHANGED <<emailEnv, alertCount, mailLog>>
  /\ UNCHANGED classifierVars
  /\ UNCHANGED monitorVars
  /\ UNCHANGED firstRunVars

\* sendPolicyChangeAlert(changes) from its guard to its return, which holds
\* no await before sendMail is called: nothing is sent without ALERT_EMAIL or
\* without a transporter; otherwise sendMail is called, and it resolves
\* (delivered) or rejects and the catch block returns false
sendPolicyChangeAlert(delivered) ==
  IF ~emailEnv.alertEmail \/ transporter = "null"
  THEN mailLog' = mailLog
  ELSE mailLog' = Append(mailLog, [alert |-> alertCount + 1,
                                   verification |-> verification,
                                   delivered |-> delivered])

\* the monitor sends an alert
SendAlert ==
  /\ alertCount < MaxAlerts
  /\ \E delivered \in BOOLEAN : sendPolicyChangeAlert(delivered)
  /\ alertCount' = alertCount + 1
  /\ UNCHANGED <<emailEnv, transporter, verification>>
  /\ UNCHANGED classifierVars
  /\ UNCHANGED monitorVars
  /\ UNCHANGED firstRunVars

NextEmail == VerifyCompletes \/ SendAlert

SpecEmail == InitEmail /\ [][NextEmail]_vars
(***************************************************************************)
(* Properties of the classifier (under SpecAssess) and of the monitor      *)
(* (under Spec).                                                           *)
(***************************************************************************)
\* detectChanges has returned for a pair with a previous snapshot, differing
\* hashes and string contents, so analyzeChanges ran to its end
Analysed == assessment.done /\ HashesDiffer /\ BothStrings

\* C1: for a pair with a previous snapshot and differing hashes, when the
\* structural detector says structural-only and the critical scanner is true,
\* the returned changeType is CRITICAL_POLICY_IN_STRUCTURAL, with
\* hasChanges = true and skipNotification not set.
CriticalInStructuralTier ==
  (Analysed /\ SemanticDiff.isStructuralOnly /\ CriticalScanner)
    => /\ assessment.changes.changeType = "CRITICAL_POLICY_IN_STRUCTURAL"
       /\ assessment.hasChanges
       /\ ~assessment.changes.skipNotification

\* C1, what the code returns in that case: the tier set in the structural
\* branch is overwritten by the classification that follows it
CriticalInStructuralOverwritten ==
  /\ Analysed /\ SemanticDiff.isStructuralOnly /\ CriticalScanner
  /\ assessment.changes.changeType = "CRITICAL_MINOR_CHANGE"
  /\ assessment.hasChanges

\* C2: for a pair with a previous snapshot and differing hashes, when the
\* critical scanner is true the assessment is never suppressed: hasChanges is
\* true and skipNotification is not set, whatever the structural verdict and
\* the magnitude.
CriticalNeverSuppressed ==
  (Analysed /\ CriticalScanner)
    => /\ assessment.hasChanges
       /\ ~assessment.analysis.skipNotification
       /\ ~assessment.changes.skipNotification

\* C2 in the structural-only case
CriticalStructuralNotified ==
  /\ Analysed /\ CriticalScanner /\ SemanticDiff.isStructuralOnly
  /\ assessment.hasChanges
  /\ ~assessment.changes.skipNotification

\* the last iteration got an assessment back from detectChanges
Assessed == iter.extracted /\ iter.result.done /\ ~iter.result.threw

\* C3: in every monitor run saveSnapshot is called for a url if and only if
\* the assessment returned for it has hasChanges or isNew; otherwise the
\* snapshot stored for that url is left unchanged.
PersistIffChanged ==
  [][(idx' = idx + 1 /\ iter'.extracted /\ iter'.result.done /\ ~iter'.result.threw)
       => /\ iter'.saveCalled <=> (iter'.result.hasChanges \/ iter'.result.isNew)
          /\ ~iter'.saveCalled
               => /\ fileStore'[iter'.url] = fileStore[iter'.url]
                  /\ mongoStore'[iter'.url] = mongoStore[iter'.url]]_vars

\* C3: a suppressed change: nothing is saved and the stored snapshot, which
\* differs from the page, stays the baseline
StaleBaselineRetained ==
  /\ Assessed
  /\ iter.result.analysis.skipNotification
  /\ ~iter.result.hasChanges /\ ~iter.result.isNew
  /\ ~iter.saveCalled
  /\ ~useMongoDb
  /\ fileStore[iter.url] = iter.loaded
  /\ fileStore[iter.url].contentHash # iter.data.contentHash

\* C4: no alert is issued for an assessment whose classification set
\* skipNotification, none for a first sighting, and an alert is issued
\* exactly when hasChanges is true and isNew is false.
AlertExactlyWhenChanged ==
  Assessed
    => /\ iter.result.analysis.skipNotification => ~iter.alertCalled
       /\ iter.result.isNew => ~iter.alertCalled
       /\ iter.alertCalled <=> (iter.result.hasChanges /\ ~iter.result.isNew)

\* C4, the case that breaks it: a change was detected, saveSnapshot threw and
\* the catch block ended the iteration before the alert
AlertLostOnSaveFailure ==
  /\ Assessed
  /\ iter.result.hasChanges /\ ~iter.result.isNew
  /\ iter.saveCalled /\ ~iter.saved /\ iter.caught
  /\ ~iter.alertCalled

\* C5: no exception escapes the classifier: for every input, non-string
\* content included, the call returns an assessment, and a fault inside it
\* gives hasChanges = true instead of an exception.
NoExceptionEscapes ==
  assessment.done
    => /\ ~assessment.threw
       /\ (previous.exists /\ HashesDiffer /\ ~BothStrings) => assessment.hasChanges

\* C5, the case that breaks it: content that is not a string and a differing
\* hash end the call in a TypeError
NonStringContentThrows ==
  /\ assessment.done /\ HashesDiffer /\ ~BothStrings
  /\ assessment.threw
  /\ ~assessment.hasChanges

\* C6: whenever no previous snapshot exists the assessment is isNew = true,
\* hasChanges = false with tier NEW_POLICY, whatever the current content.
FirstSighting ==
  (assessment.done /\ ~previous.exists)
    => /\ assessment.isNew
       /\ ~assessment.hasChanges
       /\ assessment.changes.type = "NEW_POLICY"
       /\ assessment.changes.changeType = "NEW_POLICY"

\* C6 for a current snapshot whose content is not even a string
FirstSightingOfAnyContent ==
  /\ assessment.done /\ ~previous.exists
  /\ ~IsString(current.content_type)
  /\ assessment.isNew /\ ~assessment.hasChanges

\* C7: whenever a previous snapshot exists and the hashes are equal the
\* assessment has isNew = false and hasChanges = false, reports no change
\* (changes: null) and analyzeChanges is not run.
HashEqualNoChange ==
  (assessment.done /\ previous.exists /\ previous.contentHash = current.contentHash)
    => /\ ~assessment.isNew
       /\ ~assessment.hasChanges
       /\ assessment.changes = NullChanges
       /\ assessment.analysis = NotRun
       /\ ~assessment.threw

\* C7 for a snapshot assessed against itself
SelfAssessed ==
  /\ assessment.done /\ previous.exists
  /\ previous = current
  /\ Len(current.content) > 0
  /\ ~assessment.hasChanges /\ assessment.analysis = NotRun

Notifies(t) ==
  /\ assessment.changes.changeType = t
  /\ assessment.hasChanges
  /\ ~assessment.changes.skipNotification

\* C9 as stated: when the diff is not structural-only, magnitude M > 20 yields
\* MAJOR_ADDITION, 10 < M <= 20 yields MODERATE_CHANGE and 5 < M <= 10 yields
\* MINOR_MODIFICATION, each with hasChanges = true and skipNotification unset.
MagnitudeBands ==
  (Analysed /\ ~SemanticDiff.isStructuralOnly)
    => /\ Magnitude > 20 => Notifies("MAJOR_ADDITION")
       /\ (10 < Magnitude /\ Magnitude <= 20) => Notifies("MODERATE_CHANGE")
       /\ (5 < Magnitude /\ Magnitude <= 10) => Notifies("MINOR_MODIFICATION")

\* C9 as amended: when the diff is not structural-only, magnitude M > 15
\* yields MAJOR_ADDITION, 8 < M <= 15 yields MODERATE_CHANGE and 3 < M <= 8
\* yields MINOR_MODIFICATION, each with hasChanges = true and
\* skipNotification unset.
MagnitudeBandsOfCode ==
  (Analysed /\ ~SemanticDiff.isStructuralOnly)
    => /\ Magnitude > 15 => Notifies("MAJOR_ADDITION")
       /\ (8 < Magnitude /\ Magnitude <= 15) => Notifies("MODERATE_CHANGE")
       /\ (3 < Magnitude /\ Magnitude <= 8) => Notifies("MINOR_MODIFICATION")

\* C9: a magnitude between the two sets of bands, classified by the code's
SixteenIsMajor ==
  /\ Analysed /\ ~SemanticDiff.isStructuralOnly
  /\ Magnitude = 16
  /\ Notifies("MAJOR_ADDITION")

\* the words of the policy-relevant sentences of a normalized document
PolicyTokens(content) ==
  LET sentences == extractPolicyRelevantContent(normalizePolicyContent(content))
  IN  UNION {Range(sentences[i]) : i \in 1..Len(sentences)}

\* realPolicyChangeConfirmed: the token-level Jaccard similarity of the
\* policy-filtered contents is below 0.80 (0 for an empty union, as the
\* similarities of the code)
realPolicyChangeConfirmed(previousContent, currentContent) ==
  LET prevTokens == PolicyTokens(previousContent)
      currTokens == PolicyTokens(currentContent)
      union      == prevTokens \cup currTokens
      similarity == IF Cardinality(union) > 0
                    THEN <<Cardinality(prevTokens \cap currTokens), Cardinality(union)>>
                    ELSE <<0, 1>>
  IN  similarity[1] * 100 < 80 * similarity[2]

\* the verifier's answer for the pair under assessment
Confirmed == realPolicyChangeConfirmed(previous.content, current.content)

\* the number the code classifies by: the magnitude, or when that is 0 the
\* difference of the normalized lengths over 20, is at most k
ClassifiedAtMost(k) ==
  /\ Magnitude <= k
  /\ Magnitude = 0 =>
       Abs(ContentLength(normalizePolicyContent(current.content))
           - ContentLength(normalizePolicyContent(previous.content))) <= 20 * k

LoadsLastSaved ==
  iter.extracted => iter.loaded = baseline

\* C12: a run configured for MongoDB found nothing for u1 although an earlier
\* run saved a snapshot of u1, which lies in the file store the fallback of
\* that save wrote: the url is reported as new a second time.
FallbackSnapshotMissed ==
  /\ envUseMongoDb /\ run = 2
  /\ iter.url = "u1" /\ iter.extracted
  /\ baseline # NoSnapshot
  /\ fileStore["u1"] = baseline
  /\ mongoStore["u1"] = NoSnapshot
  /\ iter.loaded = NoSnapshot
  /\ iter.result # Threw /\ iter.result.isNew

\* C13: when previous and current content normalize to the same text, the
\* change is not meaningful: the tier is FORMATTING_ONLY or STRUCTURAL_ONLY,
\* skipNotification is set and hasChanges is false.
SameNormalizedNotMeaningful ==
  (Analysed /\ SemanticDiff.isIdentical)
    => /\ assessment.analysis.changeType \in {"FORMATTING_ONLY", "STRUCTURAL_ONLY"}
       /\ assessment.analysis.skipNotification
       /\ ~assessment.hasChanges

\* C13: the two contents differ only in text the normalizer strips, and the
\* scan of the raw sentences for critical terms makes the result a notifying
\* CRITICAL_MINOR_CHANGE
SameNormalizedNotified ==
  /\ Analysed /\ SemanticDiff.isIdentical
  /\ normalizePolicyContent(previous.content) = normalizePolicyContent(current.content)
  /\ previous.content # current.content
  /\ CriticalScanner
  /\ assessment.analysis.changeType = "CRITICAL_MINOR_CHANGE"
  /\ assessment.hasChanges

\* the order of the severity tiers
TierRank(t) ==
  CASE t \in {"FORMATTING_ONLY", "STRUCTURAL_ONLY", "STRUCTURAL_WITH_KEYWORDS"} -> 0
    [] t = "CRITICAL_MINOR_CHANGE" -> 1
    [] t = "MINOR_MODIFICATION" -> 2
    [] t = "MODERATE_CHANGE" -> 3
    [] t = "MAJOR_ADDITION" -> 4

\* the signals and the result of a pair of contents
Signals(prev, curr) ==
  LET result == detectChanges(PolicyData("u1", prev), PolicyData("u1", curr))
  IN  [magnitude |-> calculatePolicySpecificDifference(normalizePolicyContent(prev),
                                                       normalizePolicyContent(curr)),
       structural |-> calculateSemanticDifference(prev, curr).isStructuralOnly,
       critical |-> containsCriticalPolicyChanges(prev, curr),
       confirmed |-> realPolicyChangeConfirmed(prev, curr),
       rank |-> TierRank(result.analysis.changeType),
       notifies |-> result.hasChanges /\ ~result.analysis.skipNotification]

\* pairs to compare the pair under assessment with: "visitors enjoy this
\* website." replaced by 4, 6 and 10 times "thanks for visiting this
\* website.", no policy sentence on either side
ComparedPairs ==
  {Signals(SentenceToks(6), Rep(SentenceToks(3), n)) : n \in {4, 6, 10}}

\* C14: with the structural verdict, the critical scanner and the verifier
\* held fixed, a larger magnitude never yields a lower severity tier and
\* never turns a notifying result into a suppressed one.
MonotoneInMagnitude ==
  Analysed =>
    \A r \in ComparedPairs :
      (/\ r.structural = SemanticDiff.isStructuralOnly
       /\ r.critical = CriticalScanner
       /\ r.confirmed = Confirmed)
        => /\ r.magnitude <= Magnitude
                => /\ r.rank <= TierRank(assessment.analysis.changeType)
                   /\ r.notifies => assessment.hasChanges
           /\ Magnitude <= r.magnitude
                => /\ TierRank(assessment.analysis.changeType) <= r.rank
                   /\ assessment.hasChanges => r.notifies

\* C14: one policy sentence was removed (M = 1) and the result is a suppressed
\* FORMATTING_ONLY, while a pair with the same three verdicts and M = 0
\* notifies in a higher tier
LargerMagnitudeSuppressed ==
  /\ Analysed /\ Magnitude = 1
  /\ assessment.analysis.changeType = "FORMATTING_ONLY"
  /\ ~assessment.hasChanges
  /\ \E r \in ComparedPairs :
       /\ r.magnitude = 0 /\ r.rank >= 2 /\ r.notifies
       /\ r.structural = SemanticDiff.isStructuralOnly
       /\ r.critical = CriticalScanner
       /\ r.confirmed = Confirmed

\* the url has a baseline snapshot in one of the stores
HasBaseline(u) == fileStore[u] # NoSnapshot \/ mongoStore[u] # NoSnapshot

\* C16: first-run initialization creates a baseline snapshot for every url
\* whose content was extracted and is not a not-found page, and removes only
\* dead urls: a url that passed validation is never placed in deadUrls nor
\* deleted from policy-urls.json.
ValidUrlsKeptWithBaseline ==
  \A u \in Range(validUrls) :
    /\ u \notin Range(deadUrls)
    /\ u \in config
    /\ (pc \in {"configured", "initialized"} \/ idx > Len(policyUrls)) => HasBaseline(u)

\* C16: with file storage and no failure at all, a url whose policy page was
\* extracted ends in validUrls and in deadUrls, is deleted from the
\* configuration and has no baseline
ValidUrlDeleted ==
  /\ pc = "initialized" /\ ~envUseMongoDb
  /\ \E u \in Range(validUrls) :
       /\ u \in Range(deadUrls)
       /\ u \notin config
       /\ ~HasBaseline(u)

\* the Jaccard similarity of the sets of words longer than 2 of the two
\* stripped cores of the pair under assessment is above num / den
CoreJaccardExceeds(num, den) ==
  LET prevWords == CoreWords(extractPolicyCore(previous.content))
      currWords == CoreWords(extractPolicyCore(current.content))
  IN  Cardinality(prevWords \cap currWords) * den
        > num * Cardinality(prevWords \cup currWords)

\* C17 as stated: the structural detector answers structural-only exactly
\* when the Jaccard similarity of the sets of words of length > 2 of the two
\* stripped cores exceeds 0.90.
StructuralAboveNinety ==
  (Analysed /\ ~SemanticDiff.isIdentical)
    => (SemanticDiff.isStructuralOnly <=> CoreJaccardExceeds(90, 100))

\* C17 as amended: the structural detector answers structural-only exactly
\* when the Jaccard similarity of the sets of words of length > 2 of the two
\* stripped cores exceeds 0.85.
StructuralAboveEightyFive ==
  (Analysed /\ ~SemanticDiff.isIdentical)
    => (SemanticDiff.isStructuralOnly <=> CoreJaccardExceeds(85, 100))

\* C17: a pair whose similarity lies above 0.85 and not above 0.90 is
\* structural-only
StructuralBelowNinety ==
  /\ Analysed /\ ~SemanticDiff.isIdentical
  /\ CoreJaccardExceeds(85, 100) /\ ~CoreJaccardExceeds(90, 100)
  /\ SemanticDiff.isStructuralOnly

\* no word longer than 2 characters is left in either stripped core
BothWordSetsEmpty ==
  /\ CoreWords(extractPolicyCore(previous.content)) = {}
  /\ CoreWords(extractPolicyCore(current.content)) = {}

\* C18: when both cores reduce to empty word sets (the union is empty), the
\* structural detector answers "not structural", and the pair is not
\* suppressed as STRUCTURAL_ONLY.
EmptyWordSetsNotStructural ==
  (Analysed /\ BothWordSetsEmpty)
    => /\ ~SemanticDiff.isStructuralOnly
       /\ assessment.analysis.changeType # "STRUCTURAL_ONLY"

\* C18: two contents that differ after normalization and have no word longer
\* than 2 characters were assessed, and the detector answered "not
\* structural"
EmptyWordSetsAssessed ==
  /\ Analysed /\ BothWordSetsEmpty
  /\ ~SemanticDiff.isIdentical
  /\ current.content # <<>> /\ previous.content # <<>>
  /\ ~isOnlyStructuralChange(previous.content, current.content)
  /\ assessment.analysis.changeType = "FORMATTING_ONLY"

\* C19: the content normalizer is idempotent, normalizing its own output
\* gives that output again, and no boilerplate match remains in its output.
NormalizerIdempotent ==
  Analysed =>
    \A content \in {previous.content, current.content} :
      LET normalized == normalizePolicyContent(content)
      IN  /\ normalizePolicyContent(normalized) = normalized
          /\ \A i \in 1..Len(normalized) : ~PhraseAt(normalized, i, SkipNav)

\* C19: the current content holds the navigation phrase inside another
\* occurrence of it; its normalized text still begins with the phrase, which
\* a second normalization removes
NormalizedTwiceDiffers ==
  /\ Analysed
  /\ PhraseAt(normalizePolicyContent(current.content), 1, SkipNav)
  /\ normalizePolicyContent(normalizePolicyContent(current.content))
       # normalizePolicyContent(current.content)

\* the number a base-36 string with an optional sign denotes
RECURSIVE FromDigits36(_, _, _)
FromDigits36(s, i, n) ==
  IF i > Len(s) THEN n
  ELSE FromDigits36(s, i + 1, 36 * n + (CHOOSE d \in 0..35 : Digit36[d + 1] = s[i]))

FromString36(s) ==
  IF s[1] = "-" THEN 0 - FromDigits36(s, 2, 0) ELSE FromDigits36(s, 1, 0)

\* h := (31 * h + charCode) wrapped to a signed 32-bit integer at every step,
\* computed outside the model for the three pages
RollingHash(content) ==
  CASE content = SentenceToks(1) -> 780780777
    [] content = SentenceToks(2) -> 0 - 1732748620
    [] content = SentenceToks(3) -> 640365946

\* the snapshots in the two stores
StoredSnapshots ==
  {s \in {fileStore[u] : u \in Urls} \cup {mongoStore[u] : u \in Urls} : s.exists}

\* C20: the contentHash of every stored snapshot is generateContentHash of
\* its content, and its value is the 32-bit polynomial rolling hash of the
\* content, h := (31 * h + charCode) wrapped to a signed 32-bit integer at
\* every step, which lies in [-2^31, 2^31 - 1].
StoredHashIsRollingHash ==
  \A s \in StoredSnapshots :
    /\ s.contentHash = generateContentHash(s.content)
    /\ FromString36(s.contentHash) = RollingHash(s.content)
    /\ FromString36(s.contentHash) >= 0 - 2147483647 - 1
    /\ FromString36(s.contentHash) <= 2147483647

\* C20: a snapshot whose hash wrapped to a negative number was saved: a
\* later iteration loaded it and saved another page over it
NegativeHashStored ==
  /\ iter.extracted /\ iter.saved
  /\ iter.loaded \in StoredSnapshots \cup {lastSaved[iter.url]}
  /\ iter.loaded.exists
  /\ iter.loaded.contentHash[1] = "-"
  /\ FromString36(iter.loaded.contentHash) < 0
  /\ \E s \in StoredSnapshots : s.url = iter.url /\ s.contentHash[1] # "-"

\* the two contents begin with breadcrumb chains that differ and go on with
\* the same body
BreadcrumbOnlyDiff ==
  /\ Len(previous.content) > 5 /\ Len(current.content) > 5
  /\ \E m1, m2 \in {"policies", "help"} :
       /\ m1 # m2
       /\ SubSeq(previous.content, 1, 5) = Crumb(m1)
       /\ SubSeq(current.content, 1, 5) = Crumb(m2)
  /\ SubSeq(previous.content, 6, Len(previous.content))
       = SubSeq(current.content, 6, Len(current.content))

\* C21: when previous and current content differ only in a breadcrumb chain
\* and the body is identical, the result is STRUCTURAL_ONLY with
\* skipNotification set.
BreadcrumbOnlyStructural ==
  (Analysed /\ BreadcrumbOnlyDiff)
    => /\ assessment.analysis.changeType = "STRUCTURAL_ONLY"
       /\ assessment.analysis.skipNotification
       /\ ~assessment.hasChanges

\* C21: only the breadcrumb differs, the detector says structural-only, and
\* the scan of the raw sentences, the chain inside the first one, makes the
\* result a notifying CRITICAL_MINOR_CHANGE
BreadcrumbOnlyNotified ==
  /\ Analysed /\ BreadcrumbOnlyDiff
  /\ SemanticDiff.isStructuralOnly
  /\ extractPolicyCore(previous.content) = extractPolicyCore(current.content)
  /\ CriticalScanner
  /\ assessment.analysis.changeType = "CRITICAL_MINOR_CHANGE"
  /\ assessment.hasChanges

\* the sentences of a normalized content, each as its words
NormalizedSentences(content) == SplitSentences(normalizePolicyContent(content), 1)

\* the positions of the policy-relevant sentences: longer than 20 characters
\* and holding a policy keyword
PolicyCorpus(sentences) ==
  {i \in 1..Len(sentences) :
     TrimLength(sentences[i]) > 20 /\ HasPolicyKeyword(sentences[i])}

\* the positions in the corpus of `from` of the sentences that no sentence of
\* the corpus of `other` resembles above 0.7
Unmatched(from, other) ==
  {i \in PolicyCorpus(from) :
     \A j \in PolicyCorpus(other) :
       LET similarity == sentenceSimilarity(from[i], other[j])
       IN  similarity[1] * 10 <= 7 * similarity[2]}

AddedSentences ==
  Unmatched(NormalizedSentences(current.content), NormalizedSentences(previous.content))
RemovedSentences ==
  Unmatched(NormalizedSentences(previous.content), NormalizedSentences(current.content))

\* C22: the magnitude is |added| + |removed| over the policy-relevant
\* corpora: the sentences of the normalized text longer than 20 characters
\* that hold a policy keyword, a sentence being added (removed) iff no
\* sentence of the other corpus has similarity above 0.7 with it.
MagnitudeIsAddedPlusRemoved ==
  Analysed => Magnitude = Cardinality(AddedSentences) + Cardinality(RemovedSentences)

\* C22: a policy sentence was removed and several were added, next to a
\* sentence with a keyword that is too short and one that holds no keyword
AddedAndRemovedCounted ==
  /\ Analysed
  /\ Cardinality(RemovedSentences) = 1
  /\ Cardinality(AddedSentences) >= 2
  /\ Magnitude = Cardinality(AddedSentences) + 1
  /\ \E i \in 1..Len(NormalizedSentences(current.content)) :
       i \notin PolicyCorpus(NormalizedSentences(current.content))

\* the words of the vocabulary in which a critical term occurs
HoldsCriticalTerm(w) == \E term \in criticalTerms : Includes(Chars[w], term)

\* a sentence of the raw content `from`, longer than 20 characters, without
\* a counterpart above 0.8 among the sentences of `other`, in which a
\* critical term occurs: inside a word, or as the two-word term "must not"
CriticalChangedSentence(from, other) ==
  \E i \in 1..Len(SplitSentences(from, 1)) :
    LET sentence == SplitSentences(from, 1)[i]
    IN  /\ TrimLength(sentence) > 20
        /\ \A j \in 1..Len(SplitSentences(other, 1)) :
             LET similarity == sentenceSimilarity(sentence, SplitSentences(other, 1)[j])
             IN  similarity[1] * 10 <= 8 * similarity[2]
        /\ \/ \E k \in 1..Len(sentence) : HoldsCriticalTerm(sentence[k])
           \/ \E k \in 1..(Len(sentence) - 1) :
                sentence[k] = "must" /\ sentence[k + 1] = "not"

\* C23: the critical term scanner returns true iff some sentence of the raw
\* documents longer than 20 characters, with no counterpart above 0.8 in the
\* other document, contains a critical term.
ScannerOnRawChangedSentences ==
  (assessment.done /\ previous.exists /\ BothStrings)
    => (CriticalScanner <=>
          \/ CriticalChangedSentence(current.content, previous.content)
          \/ CriticalChangedSentence(previous.content, current.content))

\* C23: the scanner is true for a removed sentence that holds a critical term
\* and no policy keyword, and the magnitude is 0
ScannerSeesUnfilteredSentence ==
  /\ Analysed /\ CriticalScanner
  /\ CriticalChangedSentence(previous.content, current.content)
  /\ ~CriticalChangedSentence(current.content, previous.content)
  /\ Magnitude = 0
  /\ \A i \in 1..Len(SplitSentences(previous.content, 1)) :
       ~HasPolicyKeyword(SplitSentences(previous.content, 1)[i])

\* C24: monitorPolicies processes every configured url exactly once, in list
\* order, and terminates: an exception raised for one url is caught and never
\* prevents the processing of the later urls, and a url whose extraction
\* returned null produces no result entry, no save and no alert.
EveryUrlOnceInOrder ==
  /\ [][/\ idx' # idx
           => \/ pc = "idle" /\ pc' = "running" /\ idx' = 1
              \/ /\ pc = "running" /\ idx' = idx + 1
                 /\ iter'.url = policyUrls[idx]
        /\ (pc = "running" /\ pc' = "idle") => idx = Len(policyUrls) + 1
        /\ (idx' = idx + 1 /\ ~iter'.extracted)
           => /\ results' = results
              /\ ~iter'.saveCalled /\ ~iter'.alertCalled
              /\ fileStore' = fileStore /\ mongoStore' = mongoStore]_vars
  /\ (pc = "running") ~> (pc = "idle" /\ idx = Len(policyUrls) + 1)

\* C24: saveSnapshot threw for the first url, the catch block took the
\* exception, and the loop stands before the second url
ExceptionCaughtLoopContinues ==
  /\ pc = "running" /\ idx = 2
  /\ iter.url = policyUrls[1]
  /\ iter.extracted /\ iter.saveCalled /\ ~iter.saved /\ iter.caught
  /\ results = <<>>

\* the sentences of the two documents under assessment
CurrentSentences == Range(SplitSentences(current.content, 1))
PreviousSentences == Range(SplitSentences(previous.content, 1))

\* one sentence, normalized, is a substring of the other
OneInOther(s, t) == DirectSubstringMatch(normalize(s), normalize(t))

\* the Jaccard of the bigram phrases of two sentences, 0 when neither has one
BigramJaccard(s, t) ==
  LET union == extractKeyPhrases(normalize(s)) \cup extractKeyPhrases(normalize(t))
  IN  IF union = {} THEN <<0, 1>>
      ELSE <<Cardinality(extractKeyPhrases(normalize(s))
                         \cap extractKeyPhrases(normalize(t))), Cardinality(union)>>

\* the score the claim gives a pair: 0.95 for a substring pair, otherwise
\* max(0.7 * bigram Jaccard + 0.3 * unigram Jaccard, unigram Jaccard)
StatedScore(s, t) ==
  LET unigram == sentenceSimilarity(s, t)
      bigram == BigramJaccard(s, t)
      combined == <<7 * bigram[1] * unigram[2] + 3 * unigram[1] * bigram[2],
                    10 * bigram[2] * unigram[2]>>
  IN  IF OneInOther(s, t) THEN <<95, 100>>
      ELSE IF combined[1] * unigram[2] >= unigram[1] * combined[2] THEN combined
      ELSE unigram

SameRatio(a, b) == a[1] * b[2] = b[1] * a[2]

\* C25 as stated: the matcher the Sentence Differ uses (sentenceSimilarity)
\* scores a pair 0.95 when one normalized sentence is a substring of the
\* other, and otherwise max(0.7 * bigram Jaccard + 0.3 * unigram Jaccard,
\* unigram Jaccard).
DifferScoresByPhraseMatcher ==
  Analysed
    => \A i \in PolicyCorpus(NormalizedSentences(current.content)) :
       \A j \in PolicyCorpus(NormalizedSentences(previous.content)) :
         SameRatio(sentenceSimilarity(NormalizedSentences(current.content)[i],
                                      NormalizedSentences(previous.content)[j]),
                   StatedScore(NormalizedSentences(current.content)[i],
                               NormalizedSentences(previous.content)[j]))

\* C25, amended: the matcher of the diff in the alert e-mail
\* (improvedSentenceSimilarity) scores a pair 0.95 when one normalized
\* sentence is a substring of the other, and otherwise max(0.7 * bigram
\* Jaccard + 0.3 * unigram Jaccard, unigram Jaccard), never below the unigram
\* Jaccard for a non-substring pair; the Sentence Differ matches by the plain
\* unigram Jaccard of the words longer than 3 characters.
PhraseMatcherIsTheAlertDiffs ==
  /\ BothStrings
       => \A s \in CurrentSentences : \A t \in PreviousSentences :
            /\ SameRatio(improvedSentenceSimilarity(s, t), StatedScore(s, t))
            /\ OneInOther(s, t) => improvedSentenceSimilarity(s, t) = <<95, 100>>
            /\ ~OneInOther(s, t)
                 => improvedSentenceSimilarity(s, t)[1] * sentenceSimilarity(s, t)[2]
                      >= sentenceSimilarity(s, t)[1] * improvedSentenceSimilarity(s, t)[2]
  /\ Analysed
       => Magnitude = Cardinality(Unmatched(NormalizedSentences(current.content),
                                            NormalizedSentences(previous.content)))
                      + Cardinality(Unmatched(NormalizedSentences(previous.content),
                                              NormalizedSentences(current.content)))

\* C25: a policy sentence added to the current page and a policy sentence of
\* the previous page are a substring pair with unigram Jaccard at most 0.7:
\* the Sentence Differ counts the sentence, the phrase matcher gives 0.95
SubstringPairCountedAdded ==
  /\ Analysed
  /\ \E i \in AddedSentences :
     \E j \in PolicyCorpus(NormalizedSentences(previous.content)) :
       /\ OneInOther(NormalizedSentences(current.content)[i],
                     NormalizedSentences(previous.content)[j])
       /\ improvedSentenceSimilarity(NormalizedSentences(current.content)[i],
                                     NormalizedSentences(previous.content)[j]) = <<95, 100>>

\* C26: detectChanges reports isNew only for a url for which no snapshot has
\* ever been persisted; a failed storage read is never reported as a new
\* policy and never has a baseline overwritten without an alert.
NewOnlyIfNeverPersisted ==
  Assessed
    => /\ iter.result.isNew => baseline = NoSnapshot
       /\ (iter.saved /\ baseline # NoSnapshot) => iter.alertCalled

\* C26, the case that breaks it: with file storage only, the snapshot saved by
\* the first run could not be read in the second; the changed page is reported
\* as a new policy, written over the baseline, and no alert is sent
ReadFailureReportedNew ==
  /\ Assessed
  /\ ~envUseMongoDb /\ run = 2
  /\ baseline # NoSnapshot
  /\ iter.loaded = NoSnapshot
  /\ iter.result.isNew
  /\ baseline.contentHash # iter.data.contentHash
  /\ iter.saved /\ fileStore[iter.url] = iter.data
  /\ ~iter.alertCalled

\* the positions of the raw sentences of `from` the scanner takes for changed
\* although the same sentence stands in `other`
ChangedThoughPresent(from, other) ==
  {i \in ChangedSentences(SplitSentences(from, 1), SplitSentences(other, 1)) :
     SplitSentences(from, 1)[i] \in Range(SplitSentences(other, 1))}

\* the positions of the policy sentences of `from` the differ counts although
\* the same sentence stands in the policy corpus of `other`
CountedThoughPresent(from, other) ==
  {i \in Unmatched(NormalizedSentences(from), NormalizedSentences(other)) :
     \E j \in PolicyCorpus(NormalizedSentences(other)) :
       NormalizedSentences(other)[j] = NormalizedSentences(from)[i]}

\* C27: sentence matching is reflexive: a sentence that occurs identically in
\* the previous and the current corpus is never counted as added or removed
\* by the Sentence Differ nor as a changed sentence by the Critical Term
\* Scanner, a sentence with no word longer than 3 characters included.
MatchingReflexive ==
  Analysed
    => /\ CountedThoughPresent(current.content, previous.content) = {}
       /\ CountedThoughPresent(previous.content, current.content) = {}
       /\ ChangedThoughPresent(current.content, previous.content) = {}
       /\ ChangedThoughPresent(previous.content, current.content) = {}

\* C27, the case that breaks it: the sentence "ads fee is not for ads not it"
\* stands once in the previous page and twice in the current one; the differ
\* counts it three times and the scanner finds its critical term "fee"
IdenticalSentenceCounted ==
  /\ Analysed
  /\ previous.content = MkDoc(FALSE, 8, 1, 4, 0)
  /\ current.content = MkDoc(FALSE, 8, 2, 4, 0)
  /\ LongWords(Sentences[8]) = {}
  /\ Magnitude = 3
  /\ CriticalScanner
  /\ ChangedThoughPresent(current.content, previous.content) # {}

\* C28: no duplicate alerts: a change alert for a url is sent only after the
\* new snapshot for that url has been saved, so while the page content stays
\* the same on the following runs, no further alert is sent for that url.
NoDuplicateAlerts ==
  /\ (Assessed /\ iter.alertCalled) => iter.saved
  /\ \A u \in Urls : alerted[u].times <= 1

\* C28, the case that breaks it: MongoDB storage; the alert of the first run
\* was sent after a save that fell back to the snapshot file, the second run
\* found the same page, loaded the older snapshot from MongoDB and sent the
\* alert again
SamePageAlertedTwice ==
  /\ Assessed
  /\ envUseMongoDb /\ run = 2
  /\ iter.url = policyUrls[1]
  /\ iter.alertCalled /\ iter.saved
  /\ alerted[iter.url] = [data |-> iter.data, times |-> 2]
  /\ baseline = iter.data
  /\ iter.loaded = Seed

\* C29: sendPolicyChangeAlert never attempts a send through a transporter
\* whose verify() has failed or has not yet completed: every sendMail is
\* called after verify() resolved.
SendOnlyThroughVerified ==
  \A i \in 1..Len(mailLog) : mailLog[i].verification = "verified"

\* C29, the case that breaks it: an alert came while verify() was pending and
\* sendMail was called; verify() then rejected and the transporter was dropped
SentBeforeVerifyFailed ==
  /\ Len(mailLog) >= 1
  /\ mailLog[1].verification = "pending"
  /\ verification = "failed"
  /\ transporter = "null"

\* the tiers returned with hasChanges = true
NotifyingTiers ==
  {"CRITICAL_POLICY_IN_STRUCTURAL", "MAJOR_ADDITION", "MODERATE_CHANGE",
   "MINOR_MODIFICATION", "CRITICAL_MINOR_CHANGE"}

\* C30: every result returned by detectChanges is well formed: isNew and
\* hasChanges are never both true; hasChanges = true implies changes is
\* non-null, carries a changeType among the notifying tiers and has
\* skipNotification unset; hasChanges = false with isNew = false implies
\* changes is null.
ResultWellFormed ==
  (assessment.done /\ ~assessment.threw)
    => /\ ~(assessment.isNew /\ assessment.hasChanges)
       /\ assessment.hasChanges
            => /\ assessment.changes # NullChanges
               /\ assessment.changes.changeType \in NotifyingTiers
               /\ ~assessment.changes.skipNotification
       /\ (~assessment.hasChanges /\ ~assessment.isNew)
            => assessment.changes = NullChanges

\* C30: a classification with skipNotification set was made and the result
\* returned carries null changes
SkippedReturnedNull ==
  /\ Analysed
  /\ assessment.analysis.skipNotification
  /\ assessment.analysis.changeType = "FORMATTING_ONLY"
  /\ ~assessment.hasChanges /\ ~assessment.isNew
  /\ assessment.changes = NullChanges

====
